---- MODULE Spec2Model ----
(***************************************************************************)
(* State-machine model of sys-ui (src/src/main.rs): the UI handlers        *)
(* do_withdraw, do_deactivate, do_delegate, do_split, do_swap, do_merge    *)
(* and sync, the engine functions process_stake_withdraw / _delegate /     *)
(* _deactivate, and the balance reconciliation adjust_balance, run by      *)
(* cooperatively scheduled tasks over the shared ledger (DB) and network   *)
(* facade (RPC) locks; the price refresh coroutine and the price map; the  *)
(* reports of the main and disposed views (terms, gains, income, tax);     *)
(* the lock on the database file taken when the process starts; and the   *)
(* clicks on accounts, lots and column headers and the amount field, also  *)
(* on their own (SpecSelection, SpecTable, SpecInput).                     *)
(*                                                                         *)
(* The lot ledger itself (sys::db::Db) is not part of src/; its operations *)
(* are modelled from sections 3, 4.1 and 4.2 of the specification.         *)
(***************************************************************************)
EXTENDS Integers, Sequences, FiniteSets, TLC

VARIABLES
    db,         \* the ledger behind DB: accounts, transfers, disposed lots
    ui,         \* GlobalState: state (amount, authority, recipient, url), account, selected,
                \* disposed_selected, prices, log; report is what the last rendering showed,
                \* amount_text the text of the last input event, click the last click on a lot
    pc,         \* per task: position in the handler it runs; also of the price
                \* coroutine, the url handler and the two process instances
    loc,        \* per task: the handler's local variables
    trace,      \* per task: the engine / ledger / network calls made by the current handler run
    cur,        \* the task running on the UI thread, <<>> when the thread is idle
    dbLock,     \* std::sync::RwLock around Db: the task holding the write guard, <<>> if none
    rpcLock,    \* std::sync::RwLock around RpcClients: read guards held, per task
    chain,      \* the network: which signatures landed on-chain
    crashed     \* a panic (assert!, index out of bounds, unwrap) ended the process

vars == <<db, ui, pc, loc, trace, cur, dbLock, rpcLock, chain, crashed>>

-----------------------------------------------------------------------------
(* Bounds of the model *)

\* lots per account in the initial ledger
MaxLots == 2
\* largest amount of one initial lot (in the token's smallest unit)
MaxAmount == 2
\* largest initial difference between the sum of an account's lots and its recorded balance
MaxDrift == 1
\* largest balance the network reports for the authority account
MaxNet == 2
\* largest value typed into the amount field (whole tokens)
MaxField == 1
\* adjust_balance calls in a row
MaxCalls == 2
\* longest text typed into the amount field (characters)
MaxText == 3

-----------------------------------------------------------------------------
(* Values *)

None == <<>>
Some(x) == <<x>>
IsSome(o) == o # <<>>
Unwrap(o) == o[1]

Tasks == {"t1", "t2"}

SOL == "SOL"
USDC == "USDC"

\* addresses: a stake account, a wallet holding a token, the fee-paying
\* authority (a tracked SOL account too), and an address the ledger does not track
StakeAddr == "stake"
TokenAddr == "wallet"
AuthAddr == "auth"
OtherAddr == "other"
Addresses == {StakeAddr, TokenAddr, AuthAddr, OtherAddr}

Key(address, token) == <<address, token>>

\* smallest units per whole token: MaybeToken::amount / ui_amount scale by 10^decimals;
\* the model keeps the scaling with a small factor
UnitsPerToken(token) == IF token = SOL THEN 2 ELSE 3

\* the f64 of the amount field is kept exactly, as a whole number of
\* 1/FieldScale tokens: a text of MaxText characters has fewer than MaxText decimals
FieldScale == 10 ^ MaxText

\* MaybeToken::amount(ui_amount): the field value in the token's smallest
\* unit, (ui_amount * 10^decimals) as u64
TokenAmount(token, ui_amount) == (ui_amount * UnitsPerToken(token)) \div FieldScale

LotSelectionMethodDefault == "FirstInFirstOut"
LastInFirstOut == "LastInFirstOut"

RECURSIVE SumAmounts(_)
SumAmounts(lots) ==
    IF lots = <<>> THEN 0 ELSE Head(lots).amount + SumAmounts(Tail(lots))

LotNumbers(lots) == {lots[i].lot_number : i \in 1..Len(lots)}

-----------------------------------------------------------------------------
(* The lot ledger (Db).  Every operation takes the ledger value d and       *)
(* returns [ok, db]: ok = FALSE is the Err result and leaves d unchanged.   *)

Ok(d) == [ok |-> TRUE, db |-> d]
Err(d) == [ok |-> FALSE, db |-> d]

get_account(d, address, token) ==
    IF Key(address, token) \in DOMAIN d.accounts
    THEN Some(d.accounts[Key(address, token)])
    ELSE None

\* get_accounts(): the tracked accounts, in the ledger's order
AccountOrder == <<Key(StakeAddr, SOL), Key(TokenAddr, USDC), Key(AuthAddr, SOL)>>

get_accounts(d) ==
    SelectSeq(AccountOrder, LAMBDA k : k \in DOMAIN d.accounts)

update_account(d, k, account) ==
    Ok([d EXCEPT !.accounts = [x \in DOMAIN d.accounts \cup {k} |->
                                  IF x = k THEN account ELSE d.accounts[x]]])

\* fails if the account is unknown or live lots remain
remove_account(d, address, token) ==
    LET k == Key(address, token) IN
    IF k \notin DOMAIN d.accounts \/ d.accounts[k].lots # <<>>
    THEN Err(d)
    ELSE Ok([d EXCEPT !.accounts = [x \in DOMAIN d.accounts \ {k} |-> d.accounts[x]]])

\* Lot selection (section 4.2): the candidate lots in the order of the policy
Earlier(a, b) == a.when < b.when \/ (a.when = b.when /\ a.lot_number < b.lot_number)

OrderLots(lots, method) ==
    IF method = LastInFirstOut
    THEN SortSeq(lots, LAMBDA a, b : Earlier(b, a))
    ELSE SortSeq(lots, Earlier)

\* greedy consumption: whole lots while they fit, then a portion of the next
RECURSIVE TakeLots(_, _)
TakeLots(ordered, amount) ==
    IF amount = 0 \/ ordered = <<>> THEN <<>>
    ELSE IF Head(ordered).amount <= amount
         THEN <<Head(ordered)>> \o TakeLots(Tail(ordered), amount - Head(ordered).amount)
         ELSE <<[Head(ordered) EXCEPT !.amount = amount]>>

\* the lots a debit of `amount` takes from `account`, and what stays live.
\* An explicit lot-number set restricts the addressable lots.
extract_lots(d, account, amount, method, lot_numbers) ==
    LET addressable == IF IsSome(lot_numbers)
                       THEN SelectSeq(account.lots,
                                      LAMBDA l : l.lot_number \in Unwrap(lot_numbers))
                       ELSE account.lots
        taken == TakeLots(OrderLots(addressable, method), amount)
        whole == {taken[i].lot_number : i \in 1..Len(taken)}
        Orig(n) == CHOOSE l \in {account.lots[i] : i \in 1..Len(account.lots)} :
                       l.lot_number = n
        split == {n \in whole :
                     \E i \in 1..Len(taken) :
                         taken[i].lot_number = n /\ taken[i].amount < Orig(n).amount}
        Portion(n) == (CHOOSE t \in {taken[i] : i \in 1..Len(taken)} :
                           t.lot_number = n).amount
        kept == SelectSeq(account.lots,
                          LAMBDA l : l.lot_number \notin whole \/ l.lot_number \in split)
        live == [i \in 1..Len(kept) |->
                    IF kept[i].lot_number \in split
                    THEN [kept[i] EXCEPT !.lot_number = d.next_lot,
                                         !.amount = kept[i].amount - Portion(kept[i].lot_number)]
                    ELSE kept[i]]
    IN  [ok |-> SumAmounts(addressable) >= amount /\ account.last_update_balance >= amount,
         taken |-> taken,
         live |-> live,
         next_lot |-> IF split = {} THEN d.next_lot ELSE d.next_lot + 1]

\* record_transfer: debit the lots provisionally and insert a Pending transfer.
\* Fails on an unknown account, insufficient lots or a signature already used.
record_transfer(d, signature, last_valid_block_height, amount, from_address, from_token, to_address, to_token, method, lot_numbers) ==
    LET from == Key(from_address, from_token)
        to == Key(to_address, to_token)
    IN
    IF \/ signature \in DOMAIN d.transfers
       \/ from \notin DOMAIN d.accounts
       \/ to \notin DOMAIN d.accounts
    THEN Err(d)
    ELSE
      LET account == d.accounts[from]
          x == extract_lots(d, account, amount, method, lot_numbers)
      IN
      IF ~x.ok THEN Err(d)
      ELSE Ok([d EXCEPT
                 !.accounts[from] = [lots |-> x.live,
                                     last_update_balance |->
                                         account.last_update_balance - amount],
                 !.next_lot = x.next_lot,
                 !.transfers = [s \in DOMAIN d.transfers \cup {signature} |->
                     IF s = signature
                     THEN [status |-> "Pending", when |-> None, amount |-> amount,
                           from |-> from, to |-> to, lots |-> x.taken,
                           last_valid_block_height |-> last_valid_block_height,
                           before |-> account]
                     ELSE d.transfers[s]]])

\* confirm_transfer: Pending -> Confirmed; the debit becomes permanent.  A
\* transfer between two accounts of one token realizes no gain: the lots move.
confirm_transfer(d, signature, when) ==
    IF signature \notin DOMAIN d.transfers THEN Err(d)
    ELSE
      LET t == d.transfers[signature] IN
      IF t.status # "Pending" \/ t.to \notin DOMAIN d.accounts THEN Err(d)
      ELSE
        LET moved == [i \in 1..Len(t.lots) |-> t.lots[i]]
            same == t.from[2] = t.to[2]
        IN Ok([d EXCEPT
                 !.transfers[signature].status = "Confirmed",
                 !.transfers[signature].when = Some(when),
                 !.accounts[t.to] =
                     IF same
                     THEN [lots |-> @.lots \o moved,
                           last_update_balance |-> @.last_update_balance + t.amount]
                     ELSE @,
                 !.disposed =
                     IF same THEN @
                     ELSE @ \o [i \in 1..Len(moved) |->
                                   [lot |-> moved[i], token |-> t.from[2], when |-> when]]])

\* cancel_transfer: Pending -> Cancelled; the provisional debit is reversed
\* exactly.  Fails on an unknown signature or a Confirmed transfer.
cancel_transfer(d, signature) ==
    IF signature \notin DOMAIN d.transfers THEN Err(d)
    ELSE
      LET t == d.transfers[signature] IN
      IF t.status = "Confirmed" THEN Err(d)
      ELSE IF t.status = "Cancelled" THEN Ok(d)
      ELSE Ok([d EXCEPT !.transfers[signature].status = "Cancelled",
                        !.accounts = [k \in DOMAIN d.accounts \cup {t.from} |->
                                         IF k = t.from THEN t.before ELSE d.accounts[k]]])

\* record_drop: a disposal with no transaction; DisposedLot records at once
record_drop(d, address, token, amount, method, lot_numbers, when) ==
    LET k == Key(address, token) IN
    IF k \notin DOMAIN d.accounts THEN Err(d)
    ELSE
      LET account == d.accounts[k]
          x == extract_lots(d, account, amount, method, lot_numbers)
      IN
      IF ~x.ok THEN Err(d)
      ELSE Ok([d EXCEPT
                 !.accounts[k] = [lots |-> x.live,
                                  last_update_balance |->
                                      account.last_update_balance - amount],
                 !.next_lot = x.next_lot,
                 !.disposed = @ \o [i \in 1..Len(x.taken) |->
                                       [lot |-> x.taken[i], token |-> token,
                                        when |-> when]]])

PendingSignatures(d) == {s \in DOMAIN d.transfers : d.transfers[s].status = "Pending"}


-----------------------------------------------------------------------------
(* Balance reconciliation *)

\* get_account_balance(..).unwrap_or_default(): the lamports the network
\* reports, 0 when the fetch fails
NetworkBalances == 0..MaxNet

\* get_account_balance(..).unwrap_or_default() (2260-2267, 2276): the fetch
\* answers Some(lamports) or fails, and a failure reads as 0
get_account_balance_or_default(fetched) == IF IsSome(fetched) THEN Unwrap(fetched) ELSE 0

\* absorption taken from the last lot of the account
adjust_balance_last_lot(d, address, network_balance) ==
    LET found == SelectSeq(get_accounts(d), LAMBDA k : k[2] = SOL /\ k[1] = address) IN
    IF found = <<>> THEN [panic |-> FALSE, db |-> d, updated |-> FALSE]
    ELSE
      LET k == found[1]
          account == d.accounts[k]
          fee == account.last_update_balance - network_balance
          last == Len(account.lots)
      IN
      IF network_balance > 0 /\ network_balance < account.last_update_balance
            /\ account.lots # <<>> /\ fee < account.lots[last].amount
      THEN [panic |-> FALSE,
            db |-> update_account(d, k,
                       [lots |-> [account.lots EXCEPT ![last].amount = @ - fee],
                        last_update_balance |-> network_balance]).db,
            updated |-> TRUE]
      ELSE [panic |-> FALSE, db |-> d, updated |-> FALSE]

\* absorption also when the shortfall equals the first lot's amount
adjust_balance_inclusive(d, address, network_balance) ==
    LET found == SelectSeq(get_accounts(d), LAMBDA k : k[2] = SOL /\ k[1] = address) IN
    IF found = <<>> THEN [panic |-> FALSE, db |-> d, updated |-> FALSE]
    ELSE
      LET k == found[1]
          account == d.accounts[k]
          fee == account.last_update_balance - network_balance
      IN
      IF network_balance > 0 /\ network_balance < account.last_update_balance
            /\ account.lots # <<>> /\ fee <= account.lots[1].amount
      THEN [panic |-> FALSE,
            db |-> update_account(d, k,
                       [lots |-> [account.lots EXCEPT ![1].amount = @ - fee],
                        last_update_balance |-> network_balance]).db,
            updated |-> TRUE]
      ELSE [panic |-> FALSE, db |-> d, updated |-> FALSE]

\* absorption that lowers the recorded balance and leaves the lot as it was
adjust_balance_balance_only(d, address, network_balance) ==
    LET found == SelectSeq(get_accounts(d), LAMBDA k : k[2] = SOL /\ k[1] = address) IN
    IF found = <<>> THEN [panic |-> FALSE, db |-> d, updated |-> FALSE]
    ELSE
      LET k == found[1]
          account == d.accounts[k]
          fee == account.last_update_balance - network_balance
      IN
      IF network_balance > 0 /\ network_balance < account.last_update_balance
            /\ account.lots # <<>> /\ fee < account.lots[1].amount
      THEN [panic |-> FALSE,
            db |-> update_account(d, k,
                       [lots |-> account.lots,
                        last_update_balance |-> network_balance]).db,
            updated |-> TRUE]
      ELSE [panic |-> FALSE, db |-> d, updated |-> FALSE]

\* absorption whenever the shortfall is smaller than the account's lots together
adjust_balance_any_lot(d, address, network_balance) ==
    LET found == SelectSeq(get_accounts(d), LAMBDA k : k[2] = SOL /\ k[1] = address) IN
    IF found = <<>> THEN [panic |-> FALSE, db |-> d, updated |-> FALSE]
    ELSE
      LET k == found[1]
          account == d.accounts[k]
          fee == account.last_update_balance - network_balance
      IN
      IF network_balance > 0 /\ network_balance < account.last_update_balance
            /\ account.lots # <<>> /\ fee < SumAmounts(account.lots)
      THEN [panic |-> FALSE,
            db |-> update_account(d, k,
                       [lots |-> [account.lots EXCEPT ![1].amount = @ - fee],
                        last_update_balance |-> network_balance]).db,
            updated |-> TRUE]
      ELSE [panic |-> FALSE, db |-> d, updated |-> FALSE]

adjust_balance_of_any_token(d, address, network_balance) == LET found == SelectSeq(get_accounts(d), LAMBDA k : k[1] = address) IN IF found = <<>> THEN [panic |-> FALSE, db |-> d, updated |-> FALSE] ELSE LET account == d.accounts[found[1]] IN IF network_balance > 0 /\ network_balance < account.last_update_balance THEN (IF account.lots = <<>> THEN [panic |-> TRUE, db |-> d, updated |-> FALSE] ELSE IF account.last_update_balance - network_balance < account.lots[1].amount THEN [panic |-> FALSE, db |-> update_account(d, found[1], [lots |-> [account.lots EXCEPT ![1].amount = @ - (account.last_update_balance - network_balance)], last_update_balance |-> network_balance]).db, updated |-> TRUE] ELSE [panic |-> FALSE, db |-> d, updated |-> FALSE]) ELSE [panic |-> FALSE, db |-> d, updated |-> FALSE]

adjust_balance_on_any_difference(d, address, network_balance) == LET found == SelectSeq(get_accounts(d), LAMBDA k : k[2] = SOL /\ k[1] = address) IN IF found = <<>> THEN [panic |-> FALSE, db |-> d, updated |-> FALSE] ELSE LET account == d.accounts[found[1]] IN IF network_balance > 0 /\ network_balance # account.last_update_balance THEN (IF account.lots = <<>> THEN [panic |-> TRUE, db |-> d, updated |-> FALSE] ELSE IF network_balance < account.last_update_balance /\ account.last_update_balance - network_balance < account.lots[1].amount THEN [panic |-> FALSE, db |-> update_account(d, found[1], [lots |-> [account.lots EXCEPT ![1].amount = @ - (account.last_update_balance - network_balance)], last_update_balance |-> network_balance]).db, updated |-> TRUE] ELSE [panic |-> FALSE, db |-> d, updated |-> FALSE]) ELSE [panic |-> FALSE, db |-> d, updated |-> FALSE]

\* adjust_balance(db, address) with the fetched network balance:
\* [panic, db, updated]; updated tells whether update_account was called
adjust_balance(d, address, network_balance) ==
    LET found == SelectSeq(get_accounts(d), LAMBDA k : k[2] = SOL /\ k[1] = address) IN
    IF found = <<>> THEN [panic |-> FALSE, db |-> d, updated |-> FALSE]
    ELSE
      LET k == found[1]
          account == d.accounts[k]
          fee == account.last_update_balance - network_balance
      IN
      IF network_balance > 0 /\ network_balance < account.last_update_balance
      THEN IF account.lots = <<>>
           THEN [panic |-> TRUE, db |-> d, updated |-> FALSE]
           ELSE IF fee < account.lots[1].amount
                THEN [panic |-> FALSE,
                      db |-> update_account(d, k,
                                 [lots |-> [account.lots EXCEPT ![1].amount = @ - fee],
                                  last_update_balance |-> network_balance]).db,
                      updated |-> TRUE]
                ELSE [panic |-> FALSE, db |-> d, updated |-> FALSE]
      ELSE [panic |-> FALSE, db |-> d, updated |-> FALSE]

-----------------------------------------------------------------------------
(* Initial state *)

\* the amounts of up to MaxLots lots, oldest first
LotLists ==
    UNION {[1..n -> 1..MaxAmount] : n \in 1..MaxLots}

MakeLots(first, amounts) ==
    [i \in 1..Len(amounts) |-> [lot_number |-> first + i - 1, amount |-> amounts[i], when |-> i]]

Min(a, b) == IF a < b THEN a ELSE b

IdleLoc == [op |-> "none", account |-> None, amount |-> 0, lot_numbers |-> None,
            arg_amount |-> None, stake_address |-> "", to_address |-> "",
            authority |-> "", authority_address |-> "", withdraw_all |-> FALSE, signature |-> 0,
            last_valid_block_height |-> 0, when |-> 0, result |-> "none",
            field |-> 0, ledger0 |-> None,
            recent_blockhash |-> "", tx_blockhash |-> "", sign_blockhash |-> "",
            send_ceiling |-> 0, fetched |-> None]

\* State { amount: None, authority: Some(CONFIG.authority_keypair), recipient: None },
\* account: None, selected: {}, log: None
InitUi == [amount |-> None, authority |-> Some("keypair"), recipient |-> None,
           account |-> None, selected |-> {}, log |-> None, url |-> "url0",
           disposed_selected |-> {}, prices |-> << >>, report |-> None, sorted |-> None,
           amount_text |-> << >>, click |-> None]

InitDb(stake_amounts, drift) ==
    LET stake_lots == MakeLots(1, stake_amounts)
        wallet_lots == MakeLots(MaxLots + 1,
                                [i \in 1..MaxLots |-> IF i = 1 THEN UnitsPerToken(USDC) ELSE 1])
        auth_lots == MakeLots(2 * MaxLots + 1, <<MaxAmount>>)
    IN [accounts |->
            (Key(StakeAddr, SOL) :> [lots |-> stake_lots,
                                     last_update_balance |-> SumAmounts(stake_lots) - drift])
         @@ (Key(TokenAddr, USDC) :> [lots |-> wallet_lots,
                                      last_update_balance |-> SumAmounts(wallet_lots)])
         @@ (Key(AuthAddr, SOL) :> [lots |-> auth_lots,
                                    last_update_balance |-> SumAmounts(auth_lots)]),
        transfers |-> << >>,
        disposed |-> << >>,
        next_lot |-> 2 * MaxLots + 2,
        tax_rate |-> None]

\* the account rows the UI shows are copies of the ledger's accounts
SnapshotOf(d, k) == [address |-> k[1], token |-> k[2], lots |-> d.accounts[k].lots,
                     last_update_balance |-> d.accounts[k].last_update_balance]

\* the ledger the application opens: a stake account of MaxLots lots whose
\* recorded balance agrees with them
OpenedDb == InitDb([i \in 1..MaxLots |-> IF i = 1 THEN MaxAmount ELSE 1], 0)

Rest ==
    /\ pc = [t \in Tasks |-> "idle"] @@ ("price" :> "sleep") @@ ("url" :> "idle")
            @@ ("app" :> "running") @@ ("other" :> "start")
    /\ loc = [t \in Tasks |-> IdleLoc]
    /\ trace = [t \in Tasks |-> << >>]
    /\ cur = None
    /\ dbLock = None
    /\ rpcLock = {}
    /\ chain = {}
    /\ crashed = FALSE

Init ==
    /\ db = OpenedDb
    /\ ui = InitUi
    /\ Rest

\* the engine is called on any ledger: any lots in the stake account, its
\* recorded balance positive and up to MaxDrift below their sum
InitEngine ==
    /\ \E stake_amounts \in LotLists :
         \E drift \in 0..Min(MaxDrift, SumAmounts(MakeLots(1, stake_amounts)) - 1) :
            db = InitDb(stake_amounts, drift)
    /\ ui = InitUi
    /\ Rest

\* the dates the lots of an account can carry
LotDates == 1..MaxLots

\* the ledger hands the lots of an account over in its own order, which need
\* not be the order of their acquisition dates
WithDates(d, k, dates) ==
    [d EXCEPT !.accounts[k].lots = [i \in 1..Len(@) |-> [@[i] EXCEPT !.when = dates[i]]]]

\* adjust_balance is called on any ledger: any lots in the account, in any
\* order of dates, its recorded balance positive and up to MaxDrift below
\* their sum
InitAdjust ==
    /\ \E stake_amounts \in LotLists :
         \E dates \in [1..Len(stake_amounts) -> LotDates] :
            \E drift \in 0..Min(MaxDrift, SumAmounts(MakeLots(1, stake_amounts)) - 1) :
               db = WithDates(InitDb(stake_amounts, drift), Key(StakeAddr, SOL), dates)
    /\ ui = InitUi
    /\ Rest

-----------------------------------------------------------------------------
(* UI events.  They run on the UI thread; the model explores them up to the  *)
(* first handler being spawned.                                             *)

UiIdle == ~crashed /\ cur = None /\ \A t \in Tasks : pc[t] = "idle"

Snapshot(k) == SnapshotOf(db, k)

Modifiers == {"none", "alt", "meta", "shift"}

\* the UI before and between operations: no handler task is under way and
\* an operation can still be started
UiQuiet ==
    /\ ~crashed /\ cur = None
    /\ \A t \in Tasks : pc[t] \in {"idle", "done"}
    /\ \E t \in Tasks : pc[t] = "idle"

\* AccountItem onclick: the row carries the account as the ledger has it
AccountItem_click ==
    /\ \E k \in DOMAIN db.accounts, modifiers \in {"none", "alt", "meta"} :
         LET kind == IF IsSome(ui.account)
                        /\ k[1] = Unwrap(ui.account).address
                        /\ k[2] = Unwrap(ui.account).token
                     THEN "selected" ELSE "regular"
             is_meta == modifiers = "meta"
         IN
         IF modifiers = "alt"
         THEN ui' = [ui EXCEPT !.recipient = Some(k[1])]
         ELSE ui' = [ui EXCEPT
                       !.selected = IF is_meta \/ kind = "regular" THEN {} ELSE @,
                       !.account = IF is_meta /\ kind = "selected"
                                   THEN None ELSE Some(Snapshot(k))]
    /\ UNCHANGED <<db, pc, loc, trace, cur, dbLock, rpcLock, chain, crashed>>

AccountItem_onclick == UiIdle /\ AccountItem_click

\* Sorting::{Lot, Date, Amount, Price}(ascending), set by a click on a column header
Sortings == {[by |-> b, asc |-> d] : b \in {"Lot", "Date", "Amount", "Price"}, d \in BOOLEAN}

\* lot.acquisition.price(): the lots of the ledger model carry a price only in the reports
acquisition_price(lot) == IF "price" \in DOMAIN lot THEN lot.price ELSE 0

SortKey(lot, by) ==
    CASE by = "Lot" -> lot.lot_number
      [] by = "Date" -> lot.when
      [] by = "Amount" -> lot.amount
      [] by = "Price" -> acquisition_price(lot)

\* lots.sort_by(..): a stable sort by the column, ascending or descending;
\* without a sorting the lots stay in the order of the account
SortLots(lots, sorted) ==
    IF ~IsSome(sorted) THEN lots
    ELSE LET by == Unwrap(sorted).by
             asc == Unwrap(sorted).asc
             Before(i, j) ==
                 LET a == SortKey(lots[i], by)
                     b == SortKey(lots[j], by)
                 IN IF a = b THEN i < j ELSE IF asc THEN a < b ELSE a > b
             Rank(i) == 1 + Cardinality({j \in 1..Len(lots) : Before(j, i)})
         IN [r \in 1..Len(lots) |-> lots[CHOOSE i \in 1..Len(lots) : Rank(i) = r]]

\* the contiguous run a shift-click selects: lots in displayed order
ShiftRange(lots, selected, lot) ==
    LET Idx(P(_)) == LET S == {i \in 1..Len(lots) : P(lots[i])} IN
                     IF S = {} THEN 1 ELSE CHOOSE i \in S : \A j \in S : j <= i
        sel_end == Idx(LAMBDA l : l.lot_number = lot)
        sel_beg == Idx(LAMBDA l : l.lot_number # lot /\ l.lot_number \in selected)
        lo == Min(sel_beg, sel_end)
        hi == IF sel_beg > sel_end THEN sel_beg ELSE sel_end
    IN {lots[i].lot_number : i \in lo..hi}

\* LotItem select_lot (796-846): the selection after a click on the row of
\* `lot` with the modifiers held
select_lot_selected(u, lot, modifiers) ==
    IF modifiers = "shift"
    THEN IF IsSome(u.account)
         THEN u.selected \cup ShiftRange(SortLots(Unwrap(u.account).lots, u.sorted),
                                         u.selected, lot)
         ELSE u.selected
    ELSE IF modifiers = "meta"
         THEN IF lot \in u.selected THEN u.selected \ {lot} ELSE u.selected \cup {lot}
         ELSE {lot}

\* LotItem select_lot: the rows shown are the lots of the selected account
select_lot_click ==
    /\ IsSome(ui.account)
    /\ \E lot \in LotNumbers(Unwrap(ui.account).lots), modifiers \in {"none", "meta", "shift"} :
         ui' = [ui EXCEPT !.selected = select_lot_selected(ui, lot, modifiers)]
    /\ UNCHANGED <<db, pc, loc, trace, cur, dbLock, rpcLock, chain, crashed>>

select_lot == UiIdle /\ select_lot_click

\* Lots: a click on a column header sorts by it, ascending first, and
\* reverses the direction when the lots are sorted by it already; the rows
\* are shown anew, so no click on them is the last event
Lots_header_onclick ==
    /\ IsSome(ui.account)
    /\ \E by \in {"Lot", "Date", "Amount", "Price"} :
         LET v == IF IsSome(ui.sorted) /\ Unwrap(ui.sorted).by = by
                  THEN ~Unwrap(ui.sorted).asc ELSE TRUE
         IN ui' = [ui EXCEPT !.sorted = Some([by |-> by, asc |-> v]),
                             !.click = None]
    /\ UNCHANGED <<db, pc, loc, trace, cur, dbLock, rpcLock, chain, crashed>>

\* the characters of the texts typed into the amount field: digits, the
\* decimal point and a character no number has
Digits == <<"0", "1", "2", "3", "4", "5", "6", "7", "8", "9">>
DigitOf(c) == CHOOSE v \in 0..9 : Digits[v + 1] = c
IsDigit(c) == \E v \in 0..9 : Digits[v + 1] = c

ends_with(value, c) == Len(value) > 0 /\ value[Len(value)] = c
contains(value, c) == \E i \in 1..Len(value) : value[i] = c

RECURSIVE DigitsValue(_)
DigitsValue(digits) ==
    IF digits = << >> THEN 0
    ELSE 10 * DigitsValue(SubSeq(digits, 1, Len(digits) - 1)) + DigitOf(digits[Len(digits)])

\* value.parse::<f64>().ok() on a text of digits, points and other
\* characters: a number has digits only, around at most one point, and at
\* least one digit; its value is kept in 1/FieldScale
parse_f64(value) ==
    LET points == {i \in 1..Len(value) : value[i] = "."}
        point == IF points = {} THEN Len(value) + 1 ELSE CHOOSE i \in points : TRUE
        whole == SubSeq(value, 1, point - 1)
        decimals == SubSeq(value, point + 1, Len(value))
    IN IF \/ Cardinality(points) > 1
          \/ \E i \in 1..Len(value) : value[i] # "." /\ ~IsDigit(value[i])
          \/ Len(whole) + Len(decimals) = 0
       THEN None
       ELSE Some(DigitsValue(whole) * FieldScale
                 + DigitsValue(decimals) * 10 ^ (MaxText - Len(decimals)))

\* Input, the amount field's oninput (913-918): the field shows the text;
\* the state takes its parse unless the text ends with a point, or has a
\* point and ends with 0
Input_amount(u, value) ==
    IF ~ends_with(value, ".") /\ ~(contains(value, ".") /\ ends_with(value, "0"))
    THEN [u EXCEPT !.amount = parse_f64(value), !.amount_text = value]
    ELSE [u EXCEPT !.amount_text = value]

\* the amount texts of the handlers' runs: empty, or a whole number
FieldTexts == {<< >>} \cup {<<Digits[v + 1]>> : v \in 0..MaxField}

\* Input: the authority, recipient and amount fields
Input_oninput ==
    /\ UiIdle
    /\ \/ \E value \in {"keypair", "bad"} : ui' = [ui EXCEPT !.authority = Some(value)]
       \/ \E value \in {AuthAddr, "keypair", "bad", ""} :
            ui' = [ui EXCEPT !.recipient = IF value = "" THEN None ELSE Some(value)]
       \/ \E value \in FieldTexts : ui' = Input_amount(ui, value)
    /\ UNCHANGED <<db, pc, loc, trace, cur, dbLock, rpcLock, chain, crashed>>


-----------------------------------------------------------------------------
(* Tasks, locks and handler plumbing *)

Running(t, at) == ~crashed /\ cur = Some(t) /\ pc[t] = at

\* spawn(async move { do_*(..).await }): the task starts when the thread is idle
CanSpawn(t) == ~crashed /\ cur = None /\ pc[t] = "idle"

Log(u, message) == [u EXCEPT !.log = Some(message)]

Record(t, event) == [trace EXCEPT ![t] = Append(@, event)]

\* a sum that ignores the selection: every lot of the account
SelectedAmountOfAllLots(account, selected) ==
    SumAmounts(account.lots)

\* the sum of the selected lots of the handler's account snapshot
SelectedAmount(account, selected) ==
    SumAmounts(SelectSeq(account.lots, LAMBDA x : x.lot_number \in selected))

SelectedLotNumbers(account, selected) ==
    LotNumbers(SelectSeq(account.lots, LAMBDA x : x.lot_number \in selected))

\* signer_of on the authority text: a malformed text never resolves, a
\* well-formed one resolves unless the key file or device is unavailable
SignerOutcomes(authority) == IF authority = "keypair" THEN BOOLEAN ELSE {FALSE}

\* is_valid_pubkey / pubkey_of on the recipient text: an address, or the path
\* of a keypair file (whose address the ledger does not track)
KeypairFile == "keypair"
ValidPubkey(recipient) == recipient \in Addresses \cup {KeypairFile}
PubkeyOf(recipient) == IF recipient = KeypairFile THEN OtherAddr ELSE recipient

\* the handler returns: its guards (rpc, db) drop, the task ends
Return(t) ==
    /\ pc' = [pc EXCEPT ![t] = "done"]
    /\ UNCHANGED loc
    /\ cur' = None
    /\ dbLock' = IF dbLock = Some(t) THEN None ELSE dbLock
    /\ rpcLock' = rpcLock \ {t}

\* an early return before any lock is taken or local is set: the task ends
Done(t) == pc' = [pc EXCEPT ![t] = "done"]

GuardReturn(t) ==
    /\ Done(t)
    /\ UNCHANGED <<db, loc, cur, dbLock, rpcLock, chain, crashed>>

\* DB.write() while another task holds the guard: the UI thread blocks in the
\* lock call and, the holder being a task of this thread, never wakes up
Block(t) ==
    /\ pc' = [pc EXCEPT ![t] = "blocked"]
    /\ cur' = Some(t)
    /\ UNCHANGED <<db, loc, dbLock, rpcLock, chain, crashed>>

\* a panic unwinds the task: the process is treated as ended
Panic(t) ==
    /\ crashed' = TRUE
    /\ pc' = [pc EXCEPT ![t] = "panicked"]
    /\ UNCHANGED <<loc, cur, dbLock, rpcLock, chain>>

-----------------------------------------------------------------------------
(* do_withdraw, lines 1522-1639 *)

\* lines 1526-1572: guards, locks, amount and lot numbers, recipient address
do_withdraw(t) ==
    /\ CanSpawn(t)
    /\ trace' = [trace EXCEPT ![t] = << >>]
    /\ IF ui.selected = {} \/ ~IsSome(ui.account)
       THEN /\ ui' = Log(ui, "Select account and lots to withdraw")
            /\ GuardReturn(t)
       ELSE IF ~IsSome(ui.recipient)
       THEN /\ ui' = Log(ui, "Enter account address to deposit the withdrawn funds to")
            /\ GuardReturn(t)
       ELSE IF ~IsSome(ui.authority)
       THEN /\ ui' = Log(ui, "Enter withdraw authority keypair for account to withdraw from")
            /\ GuardReturn(t)
       ELSE IF IsSome(dbLock)
       THEN /\ ui' = [ui EXCEPT !.log = None]
            /\ Block(t)
       ELSE
         LET account == Unwrap(ui.account)
             field == IF IsSome(ui.amount) THEN Unwrap(ui.amount) ELSE 0
             amount == IF field > 0
                       THEN TokenAmount(account.token, field)
                       ELSE SelectedAmount(account, ui.selected)
             lot_numbers == SelectedLotNumbers(account, ui.selected)
             recipient == Unwrap(ui.recipient)
         IN
         IF ~ValidPubkey(recipient)
         THEN /\ ui' = Log(ui, "Invalid address to deposit to")
              /\ GuardReturn(t)
         ELSE /\ ui' = [ui EXCEPT !.log = None]
              /\ loc' = [loc EXCEPT ![t] =
                           [IdleLoc EXCEPT !.op = "withdraw",
                                           !.account = Some(account),
                                           !.amount = amount,
                                           !.lot_numbers = Some(lot_numbers),
                                           !.stake_address = account.address,
                                           !.to_address = PubkeyOf(recipient),
                                           !.field = field,
                                           !.authority = Unwrap(ui.authority),
                                           !.ledger0 = Some(db)]]
              /\ pc' = [pc EXCEPT ![t] = IF account.token = SOL
                                         THEN "withdraw_signer" ELSE "token_transfer"]
              /\ cur' = Some(t)
              /\ dbLock' = Some(t)
              /\ rpcLock' = rpcLock \cup {t}
              /\ UNCHANGED <<db, chain, crashed>>

\* lines 1573-1582: process_token_transfer(..).await suspends the task
do_withdraw_token_transfer(t) ==
    /\ Running(t, "token_transfer")
    /\ pc' = [pc EXCEPT ![t] = "token_transfer_await"]
    /\ cur' = None
    /\ trace' = Record(t, "process_token_transfer")
    /\ UNCHANGED <<db, ui, loc, dbLock, rpcLock, chain, crashed>>

\* lines 1583-1608: the collaborator's result; on success signer, adjust_balance,
\* selection reset, record_drop
do_withdraw_token_done(t) ==
    /\ ~crashed /\ cur = None /\ pc[t] = "token_transfer_await"
    /\ UNCHANGED chain
    /\ \E transfer_ok \in SignerOutcomes(loc[t].authority),
          signer_ok \in SignerOutcomes(loc[t].authority),
          network_balance \in NetworkBalances :
         LET account == Unwrap(loc[t].account)
             adjusted == adjust_balance(db, AuthAddr, network_balance)
             dropped == record_drop(adjusted.db, account.address, account.token,
                                    loc[t].amount, LastInFirstOut, loc[t].lot_numbers, 0)
         IN
         IF ~transfer_ok
         THEN /\ ui' = Log(ui, "Failed spl-token transfer")
              /\ trace' = Record(t, "token_transfer_err")
              /\ Return(t)
              /\ UNCHANGED <<db, crashed>>
         ELSE IF ~signer_ok
         THEN /\ ui' = Log(ui, "Invalid signer")
              /\ trace' = Record(t, "token_transfer_ok")
              /\ Return(t)
              /\ UNCHANGED <<db, crashed>>
         ELSE IF adjusted.panic
         THEN /\ Panic(t)
              /\ trace' = [trace EXCEPT ![t] = @ \o <<"token_transfer_ok", "adjust_balance">>]
              /\ UNCHANGED <<db, ui>>
         ELSE /\ db' = dropped.db
              /\ ui' = [ui EXCEPT !.account = None, !.selected = {},
                                  !.log = Some("buffer")]
              /\ trace' = [trace EXCEPT ![t] =
                             @ \o <<"token_transfer_ok", "adjust_balance",
                                    IF dropped.ok THEN "record_drop" ELSE "record_drop_err">>]
              /\ Return(t)
              /\ UNCHANGED crashed

\* a variant that calls the engine in its withdraw-all mode (amount None)
do_withdraw_signer_withdraw_all(t) == Running(t, "withdraw_signer") /\ UNCHANGED <<db, trace, chain, crashed>> /\ \E signer_ok \in SignerOutcomes(loc[t].authority) : IF signer_ok THEN loc' = [loc EXCEPT ![t].authority_address = AuthAddr, ![t].arg_amount = None, ![t].ledger0 = Some(db)] /\ pc' = [pc EXCEPT ![t] = "psw_begin"] /\ UNCHANGED <<ui, cur, dbLock, rpcLock>> ELSE ui' = Log(ui, "Invalid signer") /\ Return(t)

\* line 1610: make_signer!(authority, log)
do_withdraw_signer(t) ==
    /\ Running(t, "withdraw_signer")
    /\ UNCHANGED <<db, trace, chain, crashed>>
    /\ \E signer_ok \in SignerOutcomes(loc[t].authority) :
       IF signer_ok
       THEN /\ loc' = [loc EXCEPT ![t].authority_address = AuthAddr,
                                  ![t].arg_amount = Some(loc[t].amount),
                                  ![t].ledger0 = Some(db)]
            /\ pc' = [pc EXCEPT ![t] = "psw_begin"]
            /\ UNCHANGED <<ui, cur, dbLock, rpcLock>>
       ELSE /\ ui' = Log(ui, "Invalid signer")
            /\ Return(t)

\* lines 1625-1638: the engine's result
do_withdraw_result(t) ==
    /\ Running(t, "withdraw_result")
    /\ UNCHANGED chain
    /\ IF loc[t].result = "Err"
       THEN /\ ui' = Log(ui, "Failed solana withdraw-stake")
            /\ Return(t)
            /\ UNCHANGED <<db, trace, crashed>>
       ELSE \E network_balance \in NetworkBalances :
              LET adjusted == adjust_balance(db, loc[t].authority_address, network_balance) IN
              /\ trace' = Record(t, "adjust_balance")
              /\ IF adjusted.panic
                 THEN Panic(t) /\ UNCHANGED <<db, ui>>
                 ELSE /\ db' = adjusted.db
                      /\ ui' = [ui EXCEPT !.account = None, !.selected = {},
                                          !.log = Some("buffer")]
                      /\ Return(t)
                      /\ UNCHANGED crashed


-----------------------------------------------------------------------------
(* process_stake_withdraw, lines 1946-2016.  The caller continues at        *)
(* Continue(t) with loc[t].result set.                                      *)

Continue(t) == IF loc[t].op = "withdraw" THEN "withdraw_result" ELSE "engine_result"

Fail(t) ==
    /\ loc' = [loc EXCEPT ![t].result = "Err"]
    /\ pc' = [pc EXCEPT ![t] = Continue(t)]

\* the block height the latest blockhash is valid to: a fresh value per fetch
BlockHeight(t) == IF t = "t1" THEN 1 ELSE 2

\* the blockhash that fetch returns with the block height
Blockhash(t) == IF t = "t1" THEN "hash1" ELSE "hash2"

\* the signature of the transaction the task signs
Signature(t) == IF t = "t1" THEN 1 ELSE 2

\* a variant that does not look the destination account up
process_stake_withdraw_build_any_destination(t) == Running(t, "psw_begin") /\ UNCHANGED <<db, ui, cur, dbLock, rpcLock, chain, crashed>> /\ \E blockhash_ok \in BOOLEAN : LET stake_account == get_account(db, loc[t].stake_address, SOL) IN IF ~blockhash_ok THEN Fail(t) /\ trace' = Record(t, "get_latest_blockhash_err") ELSE trace' = Record(t, "get_latest_blockhash") /\ IF ~IsSome(stake_account) THEN Fail(t) ELSE loc' = [loc EXCEPT ![t].recent_blockhash = Blockhash(t), ![t].tx_blockhash = Blockhash(t), ![t].last_valid_block_height = BlockHeight(t), ![t].withdraw_all = ~IsSome(loc[t].arg_amount), ![t].amount = IF IsSome(loc[t].arg_amount) THEN Unwrap(loc[t].arg_amount) ELSE Unwrap(stake_account).last_update_balance] /\ pc' = [pc EXCEPT ![t] = "psw_simulate"]

\* lines 1959-1982: blockhash, the two accounts, withdraw_all, the transaction
process_stake_withdraw_build(t) ==
    /\ Running(t, "psw_begin")
    /\ UNCHANGED <<db, ui, cur, dbLock, rpcLock, chain, crashed>>
    /\ \E blockhash_ok \in BOOLEAN :
         LET stake_account == get_account(db, loc[t].stake_address, SOL) IN
         IF ~blockhash_ok
         THEN Fail(t) /\ trace' = Record(t, "get_latest_blockhash_err")
         ELSE /\ trace' = Record(t, "get_latest_blockhash")
              /\ IF ~IsSome(stake_account) \/ ~IsSome(get_account(db, loc[t].to_address, SOL))
                 THEN Fail(t)
                 ELSE /\ loc' = [loc EXCEPT
                                   ![t].recent_blockhash = Blockhash(t),
                                   ![t].tx_blockhash = Blockhash(t),
                                   ![t].last_valid_block_height = BlockHeight(t),
                                   ![t].withdraw_all = ~IsSome(loc[t].arg_amount),
                                   ![t].amount =
                                       IF IsSome(loc[t].arg_amount)
                                       THEN Unwrap(loc[t].arg_amount)
                                       ELSE Unwrap(stake_account).last_update_balance]
                      /\ pc' = [pc EXCEPT ![t] = "psw_simulate"]

\* a simulation whose execution error is ignored: the engine goes on to sign
process_stake_withdraw_simulate_ignored(t) ==
    /\ Running(t, "psw_simulate")
    /\ UNCHANGED <<db, ui, cur, dbLock, rpcLock, chain, crashed>>
    /\ \E simulation \in {"ok", "execution_error", "rpc_error"} :
         /\ trace' = Record(t, IF simulation = "ok" THEN "simulate"
                               ELSE IF simulation = "execution_error"
                                    THEN "simulate_execution_error" ELSE "simulate_err")
         /\ IF simulation # "rpc_error"
            THEN /\ pc' = [pc EXCEPT ![t] = "psw_sign"]
                 /\ UNCHANGED loc
            ELSE Fail(t)

\* a simulation that is tried a second time after it failed
process_stake_withdraw_simulate_retrying(t) ==
    /\ Running(t, "psw_simulate")
    /\ UNCHANGED <<db, ui, cur, dbLock, rpcLock, chain, crashed>>
    /\ \E simulation \in {"ok", "execution_error", "rpc_error"} :
         /\ trace' = Record(t, IF simulation = "ok" THEN "simulate"
                               ELSE IF simulation = "execution_error"
                                    THEN "simulate_execution_error" ELSE "simulate_err")
         /\ IF simulation = "ok"
            THEN /\ pc' = [pc EXCEPT ![t] = "psw_sign"]
                 /\ UNCHANGED loc
            ELSE IF Len(trace[t]) < 2
            THEN UNCHANGED <<pc, loc>>
            ELSE Fail(t)

\* lines 1983-1986: simulate_transaction; an RPC error or an execution error aborts
process_stake_withdraw_simulate(t) ==
    /\ Running(t, "psw_simulate")
    /\ UNCHANGED <<db, ui, cur, dbLock, rpcLock, chain, crashed>>
    /\ \E simulation \in {"ok", "execution_error", "rpc_error"} :
         /\ trace' = Record(t, IF simulation = "ok" THEN "simulate"
                               ELSE IF simulation = "execution_error"
                                    THEN "simulate_execution_error" ELSE "simulate_err")
         /\ IF simulation = "ok"
            THEN /\ pc' = [pc EXCEPT ![t] = "psw_sign"]
                 /\ UNCHANGED loc
            ELSE Fail(t)

\* lines 1987-1989: try_sign and the transaction's signature
process_stake_withdraw_sign(t) ==
    /\ Running(t, "psw_sign")
    /\ UNCHANGED <<db, ui, cur, dbLock, rpcLock, chain, crashed>>
    /\ \E sign_ok \in BOOLEAN :
         IF sign_ok
         THEN /\ trace' = Record(t, "sign")
              /\ loc' = [loc EXCEPT ![t].signature = Signature(t),
                                    ![t].sign_blockhash = loc[t].recent_blockhash]
              /\ pc' = [pc EXCEPT ![t] = "psw_record"]
         ELSE Fail(t) /\ trace' = Record(t, "sign_err")

\* record_transfer with its result ignored: the engine goes on to submit
process_stake_withdraw_record_unchecked(t) ==
    /\ Running(t, "psw_record")
    /\ UNCHANGED <<ui, loc, cur, dbLock, rpcLock, chain, crashed>>
    /\ LET r == record_transfer(db, loc[t].signature, loc[t].last_valid_block_height,
                                loc[t].amount, loc[t].stake_address, SOL,
                                loc[t].to_address, SOL, LotSelectionMethodDefault,
                                loc[t].lot_numbers)
       IN /\ db' = r.db
          /\ trace' = Record(t, IF r.ok THEN "record_transfer" ELSE "record_transfer_err")
          /\ pc' = [pc EXCEPT ![t] = "psw_send"]

\* lines 1990-2000: db.record_transfer(..)?
process_stake_withdraw_record(t) ==
    /\ Running(t, "psw_record")
    /\ UNCHANGED <<ui, cur, dbLock, rpcLock, chain, crashed>>
    /\ LET r == record_transfer(db, loc[t].signature, loc[t].last_valid_block_height,
                                loc[t].amount, loc[t].stake_address, SOL,
                                loc[t].to_address, SOL, LotSelectionMethodDefault,
                                loc[t].lot_numbers)
       IN IF r.ok
          THEN /\ db' = r.db
               /\ trace' = Record(t, "record_transfer")
               /\ pc' = [pc EXCEPT ![t] = "psw_send"]
               /\ UNCHANGED loc
          ELSE /\ Fail(t)
               /\ trace' = Record(t, "record_transfer_err")
               /\ UNCHANGED db

\* submission with its answer ignored: the engine goes on to the settlement date
process_stake_withdraw_send_unchecked(t) ==
    /\ Running(t, "psw_send")
    /\ UNCHANGED <<db, ui, cur, dbLock, rpcLock, crashed>>
    /\ loc' = [loc EXCEPT ![t].send_ceiling = loc[t].last_valid_block_height]
    /\ \E outcome \in {"landed", "expired", "unknown"}, on_chain \in BOOLEAN :
         /\ outcome = "landed" => on_chain
         /\ outcome = "expired" => ~on_chain
         /\ chain' = IF on_chain THEN chain \cup {loc[t].signature} ELSE chain
         /\ trace' = Record(t, IF outcome = "landed" THEN "send_true"
                               ELSE IF outcome = "expired" THEN "send_false"
                               ELSE "send_unknown")
         /\ pc' = [pc EXCEPT ![t] = "psw_date"]

\* lines 2001-2003: send_transaction_until_expired(..).unwrap_or_default().
\* "landed": confirmed before the ceiling; "expired": the ceiling passed;
\* "unknown": the call gave no answer, the transaction may or may not have landed
process_stake_withdraw_send(t) ==
    /\ Running(t, "psw_send")
    /\ UNCHANGED <<db, ui, cur, dbLock, rpcLock, crashed>>
    /\ loc' = [loc EXCEPT ![t].send_ceiling = loc[t].last_valid_block_height]
    /\ \E outcome \in {"landed", "expired", "unknown"}, on_chain \in BOOLEAN :
         /\ outcome = "landed" => on_chain
         /\ outcome = "expired" => ~on_chain
         /\ chain' = IF on_chain THEN chain \cup {loc[t].signature} ELSE chain
         /\ trace' = Record(t, IF outcome = "landed" THEN "send_true"
                               ELSE IF outcome = "expired" THEN "send_false"
                               ELSE "send_unknown")
         /\ pc' = [pc EXCEPT ![t] = IF outcome = "landed" THEN "psw_date" ELSE "psw_cancel"]

\* the failure returned without cancelling the recorded transfer
process_stake_withdraw_cancel_skipped(t) ==
    /\ Running(t, "psw_cancel")
    /\ UNCHANGED <<db, ui, trace, cur, dbLock, rpcLock, chain, crashed>>
    /\ Fail(t)

\* lines 2004-2005: db.cancel_transfer(signature)?; return Err("Withdraw failed")
process_stake_withdraw_cancel(t) ==
    /\ Running(t, "psw_cancel")
    /\ UNCHANGED <<ui, cur, dbLock, rpcLock, chain, crashed>>
    /\ LET r == cancel_transfer(db, loc[t].signature) IN
         /\ db' = r.db
         /\ trace' = Record(t, IF r.ok THEN "cancel_transfer" ELSE "cancel_transfer_err")
         /\ Fail(t)

\* the await with the ledger guard dropped for its duration
process_stake_withdraw_date_unlocked(t) ==
    /\ Running(t, "psw_date")
    /\ pc' = [pc EXCEPT ![t] = "psw_date_await"]
    /\ cur' = None
    /\ dbLock' = None
    /\ UNCHANGED <<db, ui, loc, trace, rpcLock, chain, crashed>>

\* lines 2007-2008: get_signature_date(..).await suspends the task
process_stake_withdraw_date(t) ==
    /\ Running(t, "psw_date")
    /\ pc' = [pc EXCEPT ![t] = "psw_date_await"]
    /\ cur' = None
    /\ UNCHANGED <<db, ui, loc, trace, dbLock, rpcLock, chain, crashed>>

\* settlement dates the network can report
Dates == {1, 2}

\* line 2008: the settlement date, or an error (?)
process_stake_withdraw_date_done(t) ==
    /\ ~crashed /\ cur = None /\ pc[t] = "psw_date_await"
    /\ cur' = Some(t)
    /\ UNCHANGED <<db, ui, dbLock, rpcLock, chain, crashed>>
    /\ \/ \E when \in Dates :
            /\ loc' = [loc EXCEPT ![t].when = when]
            /\ pc' = [pc EXCEPT ![t] = "psw_confirm"]
            /\ trace' = Record(t, "get_signature_date")
       \/ /\ Fail(t)
          /\ trace' = Record(t, "get_signature_date_err")

\* line 2009: db.confirm_transfer(signature, when)?
process_stake_withdraw_confirm(t) ==
    /\ Running(t, "psw_confirm")
    /\ UNCHANGED <<ui, cur, dbLock, rpcLock, chain, crashed>>
    /\ LET r == confirm_transfer(db, loc[t].signature, loc[t].when) IN
         /\ db' = r.db
         /\ IF r.ok
            THEN /\ trace' = Record(t, "confirm_transfer")
                 /\ pc' = [pc EXCEPT ![t] = "psw_remove"]
                 /\ UNCHANGED loc
            ELSE /\ trace' = Record(t, "confirm_transfer_err")
                 /\ Fail(t)

\* lines 2010-2015: withdraw_all asserts the account has no lot left and removes it
process_stake_withdraw_finish(t) ==
    /\ Running(t, "psw_remove")
    /\ UNCHANGED <<ui, chain>>
    /\ IF ~loc[t].withdraw_all
       THEN /\ loc' = [loc EXCEPT ![t].result = "Ok"]
            /\ pc' = [pc EXCEPT ![t] = Continue(t)]
            /\ UNCHANGED <<db, trace, cur, dbLock, rpcLock, crashed>>
       ELSE
         LET stake_account == get_account(db, loc[t].stake_address, SOL) IN
         IF ~IsSome(stake_account) \/ Unwrap(stake_account).lots # << >>
         THEN /\ Panic(t)
              /\ trace' = Record(t, "assert_failed")
              /\ UNCHANGED db
         ELSE LET r == remove_account(db, loc[t].stake_address, SOL) IN
              /\ db' = r.db
              /\ trace' = Record(t, IF r.ok THEN "remove_account" ELSE "remove_account_err")
              /\ loc' = [loc EXCEPT ![t].result = IF r.ok THEN "Ok" ELSE "Err"]
              /\ pc' = [pc EXCEPT ![t] = Continue(t)]
              /\ UNCHANGED <<cur, dbLock, rpcLock, crashed>>


\* a direct call of the public engine function with the caller's arguments:
\* any tracked or untracked addresses, an amount or None (withdraw all), a
\* lot-number set or None.  The caller holds the ledger (&mut Db).
process_stake_withdraw(t) ==
    /\ CanSpawn(t)
    /\ ~IsSome(dbLock)
    /\ trace' = [trace EXCEPT ![t] = << >>]
    /\ \E stake_address \in {StakeAddr, TokenAddr, OtherAddr},
          to_address \in {AuthAddr, TokenAddr, OtherAddr},
          amount \in {None} \cup {Some(a) : a \in 1..MaxAmount},
          lot_numbers \in {None} \cup {Some(S) : S \in SUBSET (1..MaxLots)} :
         loc' = [loc EXCEPT ![t] =
                   [IdleLoc EXCEPT !.op = "engine",
                                   !.stake_address = stake_address,
                                   !.to_address = to_address,
                                   !.authority_address = AuthAddr,
                                   !.arg_amount = amount,
                                   !.lot_numbers = lot_numbers,
                                   !.ledger0 = Some(db)]]
    /\ pc' = [pc EXCEPT ![t] = "psw_begin"]
    /\ cur' = Some(t)
    /\ dbLock' = Some(t)
    /\ rpcLock' = rpcLock \cup {t}
    /\ UNCHANGED <<db, ui, chain, crashed>>

\* the engine function returns to that caller
process_stake_withdraw_return(t) ==
    /\ Running(t, "engine_result")
    /\ Return(t)
    /\ UNCHANGED <<db, ui, trace, chain, crashed>>

-----------------------------------------------------------------------------
(* process_stake_deactivate (1911-1943) and process_stake_delegate          *)
(* (2018-2050): no await inside, each runs to its result in one piece.      *)

EngineOutcomes == {"blockhash_err", "simulation_rpc_err", "simulation_execution_error",
                   "sign_err", "expired", "unknown", "landed"}

\* the calls made up to the outcome, and the result
process_stake_deactivate(outcome) ==
    [result |-> IF outcome = "landed" THEN "Ok" ELSE "Err",
     events |->
        IF outcome = "blockhash_err" THEN <<"get_latest_blockhash_err">>
        ELSE IF outcome = "simulation_rpc_err"
             THEN <<"get_latest_blockhash", "simulate_err">>
        ELSE IF outcome = "simulation_execution_error"
             THEN <<"get_latest_blockhash", "simulate_execution_error">>
        ELSE IF outcome = "sign_err"
             THEN <<"get_latest_blockhash", "simulate", "sign_err">>
        ELSE <<"get_latest_blockhash", "simulate", "sign",
               IF outcome = "landed" THEN "send_true"
               ELSE IF outcome = "expired" THEN "send_false" ELSE "send_unknown">>]

process_stake_delegate(outcome) ==
    [result |-> IF outcome = "landed" THEN "Ok" ELSE "Err",
     events |->
        IF outcome = "blockhash_err" THEN <<"get_latest_blockhash_err">>
        ELSE IF outcome = "simulation_rpc_err"
             THEN <<"get_latest_blockhash", "simulate_err">>
        ELSE IF outcome = "simulation_execution_error"
             THEN <<"get_latest_blockhash", "simulate_execution_error">>
        ELSE IF outcome = "sign_err"
             THEN <<"get_latest_blockhash", "simulate", "sign_err">>
        ELSE <<"get_latest_blockhash", "simulate", "sign",
               IF outcome = "landed" THEN "send_true"
               ELSE IF outcome = "expired" THEN "send_false" ELSE "send_unknown">>]

\* the engine's locals after the calls it made: the fetched pair, the
\* blockhash set on the message (1927, 2036) and given to try_sign (1932,
\* 2041), the ceiling given to send_transaction_until_expired (1936, 2044)
EngineLocals(t, events) ==
    LET Called(e) == \E i \in 1..Len(events) : events[i] \in e
        fetched == Called({"get_latest_blockhash"})
    IN [recent_blockhash |-> IF fetched THEN Blockhash(t) ELSE "",
        last_valid_block_height |-> IF fetched THEN BlockHeight(t) ELSE 0,
        tx_blockhash |-> IF fetched THEN Blockhash(t) ELSE "",
        sign_blockhash |-> IF Called({"sign"}) THEN Blockhash(t) ELSE "",
        send_ceiling |-> IF Called({"send_true", "send_false", "send_unknown"})
                         THEN BlockHeight(t) ELSE 0]

\* whether the submitted transaction is on-chain after the outcome
OnChain(outcome) == IF outcome = "landed" THEN {TRUE}
                    ELSE IF outcome = "unknown" THEN BOOLEAN ELSE {FALSE}


-----------------------------------------------------------------------------
(* do_deactivate (1476-1520) and do_delegate (1641-1692) *)

\* lines 1480-1514: guards, RPC.read(), signer, process_stake_deactivate
do_deactivate(t) ==
    /\ CanSpawn(t)
    /\ UNCHANGED <<db, dbLock, crashed>>
    /\ IF ~IsSome(ui.account)
       THEN /\ ui' = Log(ui, "Select account to deactivate")
            /\ trace' = [trace EXCEPT ![t] = << >>]
            /\ Done(t) /\ UNCHANGED <<loc, cur, rpcLock, chain>>
       ELSE IF ~IsSome(ui.authority)
       THEN /\ ui' = Log(ui, "Enter staking authority keypair for account to be deactivated")
            /\ trace' = [trace EXCEPT ![t] = << >>]
            /\ Done(t) /\ UNCHANGED <<loc, cur, rpcLock, chain>>
       ELSE \E signer_ok \in SignerOutcomes(Unwrap(ui.authority)) :
            IF ~signer_ok
            THEN /\ ui' = Log(ui, "Invalid signer")
                 /\ trace' = [trace EXCEPT ![t] = << >>]
                 /\ Done(t) /\ UNCHANGED <<loc, cur, rpcLock, chain>>
            ELSE \E outcome \in EngineOutcomes : \E on_chain \in OnChain(outcome) :
                 LET r == process_stake_deactivate(outcome) IN
                 /\ ui' = IF r.result = "Err"
                          THEN Log(ui, "Failed solana deactivate-stake")
                          ELSE Log(ui, "deactivate-stake")
                 /\ trace' = [trace EXCEPT ![t] = r.events]
                 /\ chain' = IF on_chain THEN chain \cup {Signature(t)} ELSE chain
                 /\ loc' = [loc EXCEPT ![t] =
                              [IdleLoc EXCEPT !.op = "deactivate",
                                              !.account = ui.account,
                                              !.authority = Unwrap(ui.authority),
                                              !.authority_address = AuthAddr,
                                              !.signature = Signature(t),
                                              !.ledger0 = Some(db),
                                              !.recent_blockhash = EngineLocals(t, r.events).recent_blockhash,
                                              !.last_valid_block_height = EngineLocals(t, r.events).last_valid_block_height,
                                              !.tx_blockhash = EngineLocals(t, r.events).tx_blockhash,
                                              !.sign_blockhash = EngineLocals(t, r.events).sign_blockhash,
                                              !.send_ceiling = EngineLocals(t, r.events).send_ceiling,
                                              !.result = r.result]]
                 /\ pc' = [pc EXCEPT ![t] = "deactivate_result"]
                 /\ cur' = Some(t)
                 /\ rpcLock' = rpcLock \cup {t}

\* a variant that reconciles the deactivated account in place of the authority's
do_deactivate_result_adjusting_stake_account(t) == Running(t, "deactivate_result") /\ UNCHANGED chain /\ IF IsSome(dbLock) THEN Block(t) /\ UNCHANGED <<ui, trace>> ELSE \E network_balance \in NetworkBalances : LET adjusted == adjust_balance(db, Unwrap(loc[t].account).address, network_balance) IN trace' = Record(t, "adjust_balance") /\ IF adjusted.panic THEN Panic(t) /\ UNCHANGED <<db, ui>> ELSE db' = adjusted.db /\ ui' = [ui EXCEPT !.account = None, !.log = Some("buffer")] /\ Return(t) /\ UNCHANGED crashed

\* lines 1515-1519: DB.write(), adjust_balance, selection reset, log
do_deactivate_result(t) ==
    /\ Running(t, "deactivate_result")
    /\ UNCHANGED chain
    /\ IF IsSome(dbLock)
       THEN Block(t) /\ UNCHANGED <<ui, trace>>
       ELSE \E network_balance \in NetworkBalances :
              LET adjusted == adjust_balance(db, loc[t].authority_address, network_balance) IN
              /\ trace' = Record(t, "adjust_balance")
              /\ IF adjusted.panic
                 THEN Panic(t) /\ UNCHANGED <<db, ui>>
                 ELSE /\ db' = adjusted.db
                      /\ ui' = [ui EXCEPT !.account = None, !.log = Some("buffer")]
                      /\ Return(t)
                      /\ UNCHANGED crashed

\* lines 1642-1686: guards, RPC.read(), recipient, signer, process_stake_delegate
do_delegate(t) ==
    /\ CanSpawn(t)
    /\ UNCHANGED <<db, dbLock, crashed>>
    /\ IF ~IsSome(ui.account)
       THEN /\ ui' = Log(ui, "Select account to delegate")
            /\ trace' = [trace EXCEPT ![t] = << >>]
            /\ Done(t) /\ UNCHANGED <<loc, cur, rpcLock, chain>>
       ELSE IF ~IsSome(ui.recipient)
       THEN /\ ui' = Log(ui, "Enter validator address to delegate to")
            /\ trace' = [trace EXCEPT ![t] = << >>]
            /\ Done(t) /\ UNCHANGED <<loc, cur, rpcLock, chain>>
       ELSE IF ~IsSome(ui.authority)
       THEN /\ ui' = Log(ui, "Enter staking authority keypair for account to delegate")
            /\ trace' = [trace EXCEPT ![t] = << >>]
            /\ Done(t) /\ UNCHANGED <<loc, cur, rpcLock, chain>>
       ELSE IF ~ValidPubkey(Unwrap(ui.recipient))
       THEN /\ ui' = Log(ui, "Invalid validator address")
            /\ trace' = [trace EXCEPT ![t] = << >>]
            /\ Done(t) /\ UNCHANGED <<loc, cur, rpcLock, chain>>
       ELSE \E signer_ok \in SignerOutcomes(Unwrap(ui.authority)) :
            IF ~signer_ok
            THEN /\ ui' = Log(ui, "Invalid signer")
                 /\ trace' = [trace EXCEPT ![t] = << >>]
                 /\ Done(t) /\ UNCHANGED <<loc, cur, rpcLock, chain>>
            ELSE \E outcome \in EngineOutcomes : \E on_chain \in OnChain(outcome) :
                 LET r == process_stake_delegate(outcome) IN
                 /\ ui' = IF r.result = "Err"
                          THEN Log(ui, "Failed solana delegate-stake")
                          ELSE [ui EXCEPT !.log = None]
                 /\ trace' = [trace EXCEPT ![t] = r.events]
                 /\ chain' = IF on_chain THEN chain \cup {Signature(t)} ELSE chain
                 /\ loc' = [loc EXCEPT ![t] =
                              [IdleLoc EXCEPT !.op = "delegate",
                                              !.account = ui.account,
                                              !.to_address = PubkeyOf(Unwrap(ui.recipient)),
                                              !.authority = Unwrap(ui.authority),
                                              !.authority_address = AuthAddr,
                                              !.signature = Signature(t),
                                              !.ledger0 = Some(db),
                                              !.recent_blockhash = EngineLocals(t, r.events).recent_blockhash,
                                              !.last_valid_block_height = EngineLocals(t, r.events).last_valid_block_height,
                                              !.tx_blockhash = EngineLocals(t, r.events).tx_blockhash,
                                              !.sign_blockhash = EngineLocals(t, r.events).sign_blockhash,
                                              !.send_ceiling = EngineLocals(t, r.events).send_ceiling,
                                              !.result = r.result]]
                 /\ pc' = [pc EXCEPT ![t] = "delegate_result"]
                 /\ cur' = Some(t)
                 /\ rpcLock' = rpcLock \cup {t}

\* lines 1687-1691: DB.write(), adjust_balance, selection reset, log
do_delegate_result(t) ==
    /\ Running(t, "delegate_result")
    /\ UNCHANGED chain
    /\ IF IsSome(dbLock)
       THEN Block(t) /\ UNCHANGED <<ui, trace>>
       ELSE \E network_balance \in NetworkBalances :
              LET adjusted == adjust_balance(db, loc[t].authority_address, network_balance) IN
              /\ trace' = Record(t, "adjust_balance")
              /\ IF adjusted.panic
                 THEN Panic(t) /\ UNCHANGED <<db, ui>>
                 ELSE /\ db' = adjusted.db
                      /\ ui' = [ui EXCEPT !.account = None, !.log = Some("buffer")]
                      /\ Return(t)
                      /\ UNCHANGED crashed


-----------------------------------------------------------------------------
(* do_split (1402-1474) and do_swap (1694-1790).  The engines they call,    *)
(* process_account_split and process_jup_swap / process_sync_swaps, are     *)
(* collaborators: on success the addressed lots leave the account.          *)

\* the ledger effect of a successful split: the lots move to the new account
process_account_split(d, address, amount, method, lot_numbers) ==
    LET k == Key(address, SOL) IN
    IF k \notin DOMAIN d.accounts THEN Err(d)
    ELSE LET account == d.accounts[k]
             x == extract_lots(d, account, amount, method, lot_numbers)
         IN IF ~x.ok THEN Err(d)
            ELSE Ok([d EXCEPT !.accounts[k] =
                                  [lots |-> x.live,
                                   last_update_balance |-> account.last_update_balance - amount],
                              !.next_lot = x.next_lot])

\* the ledger effect of a completed swap: the lots are disposed of
process_jup_swap(d, address, from_token, amount, method, lot_numbers) ==
    record_drop(d, address, from_token, amount, method, lot_numbers, 0)

\* lines 1406-1443: guards, locks, amount and lot numbers, signer, to_keypair
do_split(t) ==
    /\ CanSpawn(t)
    /\ trace' = [trace EXCEPT ![t] = << >>]
    /\ UNCHANGED <<db, chain>>
    /\ IF ui.selected = {} \/ ~IsSome(ui.account)
       THEN /\ ui' = Log(ui, "Select account and lots to split")
            /\ Done(t) /\ UNCHANGED <<loc, cur, dbLock, rpcLock, crashed>>
       ELSE IF ~IsSome(ui.authority)
       THEN /\ ui' = Log(ui, "Enter staking authority keypair for account to be split")
            /\ Done(t) /\ UNCHANGED <<loc, cur, dbLock, rpcLock, crashed>>
       ELSE IF IsSome(dbLock)
       THEN /\ ui' = [ui EXCEPT !.log = None]
            /\ pc' = [pc EXCEPT ![t] = "blocked"]
            /\ cur' = Some(t)
            /\ UNCHANGED <<loc, dbLock, rpcLock, crashed>>
       ELSE \E signer_ok \in SignerOutcomes(Unwrap(ui.authority)) :
         LET account == Unwrap(ui.account)
             amount == SelectedAmount(account, ui.selected)
             lot_numbers == SelectedLotNumbers(account, ui.selected)
         IN
         IF ~signer_ok
         THEN /\ ui' = Log(ui, "Invalid signer")
              /\ Done(t) /\ UNCHANGED <<loc, cur, dbLock, rpcLock, crashed>>
         ELSE IF IsSome(ui.recipient) /\ Unwrap(ui.recipient) # KeypairFile
         THEN \* keypair_of(..).unwrap() on a recipient that is no keypair file
              /\ ui' = [ui EXCEPT !.log = None]
              /\ crashed' = TRUE
              /\ pc' = [pc EXCEPT ![t] = "panicked"]
              /\ UNCHANGED <<loc, cur, dbLock, rpcLock>>
         ELSE /\ ui' = [ui EXCEPT !.log = None]
              /\ loc' = [loc EXCEPT ![t] =
                           [IdleLoc EXCEPT !.op = "split",
                                           !.account = Some(account),
                                           !.amount = amount,
                                           !.lot_numbers = Some(lot_numbers),
                                           !.stake_address = account.address,
                                           !.authority = Unwrap(ui.authority),
                                           !.authority_address = AuthAddr,
                                           !.field = IF IsSome(ui.amount)
                                                     THEN Unwrap(ui.amount) ELSE 0,
                                           !.ledger0 = Some(db)]]
              /\ pc' = [pc EXCEPT ![t] = "split_call"]
              /\ cur' = Some(t)
              /\ dbLock' = Some(t)
              /\ rpcLock' = rpcLock \cup {t}
              /\ UNCHANGED crashed

\* lines 1444-1459: process_account_split(.., Some(amount), .., Some(lot_numbers), ..).await
do_split_call(t) ==
    /\ Running(t, "split_call")
    /\ pc' = [pc EXCEPT ![t] = "split_await"]
    /\ cur' = None
    /\ trace' = Record(t, "process_account_split")
    /\ UNCHANGED <<db, ui, loc, dbLock, rpcLock, chain, crashed>>

\* lines 1460-1473: the result; adjust_balance, selection reset, log
do_split_done(t) ==
    /\ ~crashed /\ cur = None /\ pc[t] = "split_await"
    /\ UNCHANGED chain
    /\ \E engine_ok \in BOOLEAN, network_balance \in NetworkBalances :
         LET r == process_account_split(db, loc[t].stake_address, loc[t].amount,
                                        LotSelectionMethodDefault, loc[t].lot_numbers)
             adjusted == adjust_balance(r.db, loc[t].authority_address, network_balance)
         IN
         IF ~engine_ok \/ ~r.ok
         THEN /\ ui' = Log(ui, "Failed sys account split")
              /\ trace' = Record(t, "process_account_split_err")
              /\ Return(t)
              /\ UNCHANGED <<db, crashed>>
         ELSE /\ trace' = Record(t, "adjust_balance")
              /\ IF adjusted.panic
                 THEN Panic(t) /\ UNCHANGED <<db, ui>>
                 ELSE /\ db' = adjusted.db
                      /\ ui' = [ui EXCEPT !.account = None, !.selected = {},
                                          !.log = Some("buffer")]
                      /\ Return(t)
                      /\ UNCHANGED crashed

\* lines 1695-1745: guards, locks, signer, amount and lot numbers
do_swap(t) ==
    /\ CanSpawn(t)
    /\ trace' = [trace EXCEPT ![t] = << >>]
    /\ UNCHANGED <<db, chain, crashed>>
    /\ IF ui.selected = {} \/ ~IsSome(ui.account)
       THEN /\ ui' = Log(ui, "Select account and lots to swap")
            /\ Done(t) /\ UNCHANGED <<loc, cur, dbLock, rpcLock>>
       ELSE IF ~IsSome(ui.authority)
       THEN /\ ui' = Log(ui, "Enter signer keypair for swap")
            /\ Done(t) /\ UNCHANGED <<loc, cur, dbLock, rpcLock>>
       ELSE IF IsSome(dbLock)
       THEN /\ ui' = [ui EXCEPT !.log = None]
            /\ pc' = [pc EXCEPT ![t] = "blocked"]
            /\ cur' = Some(t)
            /\ UNCHANGED <<loc, dbLock, rpcLock>>
       ELSE \E signer_ok \in SignerOutcomes(Unwrap(ui.authority)) :
         LET account == Unwrap(ui.account)
             amount == SelectedAmount(account, ui.selected)
             lot_numbers == SelectedLotNumbers(account, ui.selected)
         IN
         IF ~signer_ok
         THEN /\ ui' = Log(ui, "Invalid signer")
              /\ Done(t) /\ UNCHANGED <<loc, cur, dbLock, rpcLock>>
         ELSE /\ ui' = [ui EXCEPT !.log = None]
              /\ loc' = [loc EXCEPT ![t] =
                           [IdleLoc EXCEPT !.op = "swap",
                                           !.account = Some(account),
                                           !.amount = amount,
                                           !.lot_numbers = Some(lot_numbers),
                                           !.authority = Unwrap(ui.authority),
                                           !.authority_address = AuthAddr,
                                           !.field = IF IsSome(ui.amount)
                                                     THEN Unwrap(ui.amount) ELSE 0,
                                           !.ledger0 = Some(db)]]
              /\ pc' = [pc EXCEPT ![t] = "swap_call"]
              /\ cur' = Some(t)
              /\ dbLock' = Some(t)
              /\ rpcLock' = rpcLock \cup {t}

\* lines 1746-1765: process_jup_swap(.., ui_amount, .., Some(lot_numbers), ..).await
do_swap_call(t) ==
    /\ Running(t, "swap_call")
    /\ pc' = [pc EXCEPT ![t] = "swap_await"]
    /\ cur' = None
    /\ trace' = Record(t, "process_jup_swap")
    /\ UNCHANGED <<db, ui, loc, dbLock, rpcLock, chain, crashed>>

\* lines 1766-1789: the swap's result, process_sync_swaps, adjust_balance
do_swap_done(t) ==
    /\ ~crashed /\ cur = None /\ pc[t] = "swap_await"
    /\ UNCHANGED chain
    /\ \E swap_ok \in BOOLEAN, sync_ok \in BOOLEAN, network_balance \in NetworkBalances :
         LET account == Unwrap(loc[t].account)
             r == process_jup_swap(db, loc[t].authority_address, account.token,
                                   loc[t].amount, LastInFirstOut, loc[t].lot_numbers)
             adjusted == adjust_balance(r.db, loc[t].authority_address, network_balance)
         IN
         IF ~swap_ok \/ ~r.ok
         THEN /\ ui' = Log(ui, "Failed sys jup swap")
              /\ trace' = Record(t, "process_jup_swap_err")
              /\ Return(t)
              /\ UNCHANGED <<db, crashed>>
         ELSE IF ~sync_ok
         THEN /\ ui' = Log(ui, "Failed sync swaps")
              /\ db' = r.db
              /\ trace' = Record(t, "process_sync_swaps_err")
              /\ Return(t)
              /\ UNCHANGED crashed
         ELSE /\ trace' = [trace EXCEPT ![t] = @ \o <<"process_sync_swaps", "adjust_balance">>]
              /\ IF adjusted.panic
                 THEN Panic(t) /\ UNCHANGED <<db, ui>>
                 ELSE /\ db' = adjusted.db
                      /\ ui' = [ui EXCEPT !.account = None, !.selected = {},
                                          !.log = Some("buffer")]
                      /\ Return(t)
                      /\ UNCHANGED crashed

-----------------------------------------------------------------------------
(* do_merge (1792-1849) and the Sync button (256-285) *)

\* the ledger effect of a successful merge: the source account's lots and
\* balance move into the destination account, the source account goes
process_account_merge(d, from_address, into_address) ==
    LET from == Key(from_address, SOL)
        into == Key(into_address, SOL)
    IN
    IF from \notin DOMAIN d.accounts \/ into \notin DOMAIN d.accounts \/ from = into
    THEN Err(d)
    ELSE Ok([d EXCEPT !.accounts =
                [k \in DOMAIN d.accounts \ {from} |->
                    IF k = into
                    THEN [lots |-> d.accounts[into].lots \o d.accounts[from].lots,
                          last_update_balance |-> d.accounts[into].last_update_balance
                                                  + d.accounts[from].last_update_balance]
                    ELSE d.accounts[k]]])

\* lines 1793-1824: guards, locks, recipient address, signer
do_merge(t) ==
    /\ CanSpawn(t)
    /\ trace' = [trace EXCEPT ![t] = << >>]
    /\ UNCHANGED <<db, chain, crashed>>
    /\ IF ~IsSome(ui.account)
       THEN /\ ui' = Log(ui, "Select account to merge")
            /\ Done(t) /\ UNCHANGED <<loc, cur, dbLock, rpcLock>>
       ELSE IF ~IsSome(ui.recipient)
       THEN /\ ui' = Log(ui, "Enter account address to be merged into")
            /\ Done(t) /\ UNCHANGED <<loc, cur, dbLock, rpcLock>>
       ELSE IF ~IsSome(ui.authority)
       THEN /\ ui' = Log(ui, "Enter staking authority keypair for account to be merged")
            /\ Done(t) /\ UNCHANGED <<loc, cur, dbLock, rpcLock>>
       ELSE IF IsSome(dbLock)
       THEN /\ ui' = [ui EXCEPT !.log = None]
            /\ pc' = [pc EXCEPT ![t] = "blocked"]
            /\ cur' = Some(t)
            /\ UNCHANGED <<loc, dbLock, rpcLock>>
       ELSE IF ~ValidPubkey(Unwrap(ui.recipient))
       THEN /\ ui' = Log(ui, "Invalid address to merge into")
            /\ Done(t) /\ UNCHANGED <<loc, cur, dbLock, rpcLock>>
       ELSE \E signer_ok \in SignerOutcomes(Unwrap(ui.authority)) :
            IF ~signer_ok
            THEN /\ ui' = Log(ui, "Invalid signer")
                 /\ Done(t) /\ UNCHANGED <<loc, cur, dbLock, rpcLock>>
            ELSE /\ ui' = [ui EXCEPT !.log = None]
                 /\ loc' = [loc EXCEPT ![t] =
                              [IdleLoc EXCEPT !.op = "merge",
                                              !.account = ui.account,
                                              !.stake_address = Unwrap(ui.account).address,
                                              !.to_address = PubkeyOf(Unwrap(ui.recipient)),
                                              !.authority = Unwrap(ui.authority),
                                              !.authority_address = AuthAddr,
                                              !.ledger0 = Some(db)]]
                 /\ pc' = [pc EXCEPT ![t] = "merge_call"]
                 /\ cur' = Some(t)
                 /\ dbLock' = Some(t)
                 /\ rpcLock' = rpcLock \cup {t}

\* lines 1825-1837: process_account_merge(..).await
do_merge_call(t) ==
    /\ Running(t, "merge_call")
    /\ pc' = [pc EXCEPT ![t] = "merge_await"]
    /\ cur' = None
    /\ trace' = Record(t, "process_account_merge")
    /\ UNCHANGED <<db, ui, loc, dbLock, rpcLock, chain, crashed>>

\* lines 1838-1849: the result; adjust_balance, account reset, log
do_merge_done(t) ==
    /\ ~crashed /\ cur = None /\ pc[t] = "merge_await"
    /\ UNCHANGED chain
    /\ \E engine_ok \in BOOLEAN, network_balance \in NetworkBalances :
         LET r == process_account_merge(db, loc[t].stake_address, loc[t].to_address)
             adjusted == adjust_balance(r.db, loc[t].authority_address, network_balance)
         IN
         IF ~engine_ok \/ ~r.ok
         THEN /\ ui' = Log(ui, "Failed sys account merge")
              /\ trace' = Record(t, "process_account_merge_err")
              /\ Return(t)
              /\ UNCHANGED <<db, crashed>>
         ELSE /\ trace' = Record(t, "adjust_balance")
              /\ IF adjusted.panic
                 THEN Panic(t) /\ UNCHANGED <<db, ui>>
                 ELSE /\ db' = adjusted.db
                      /\ ui' = [ui EXCEPT !.account = None, !.log = Some("buffer")]
                      /\ Return(t)
                      /\ UNCHANGED crashed

\* lines 256-268: the Sync button's task takes DB.write() and RPC.read() for
\* the call of process_account_sync and keeps them across its await
sync(t) ==
    /\ CanSpawn(t)
    /\ UNCHANGED <<db, ui, chain, crashed>>
    /\ IF IsSome(dbLock)
       THEN /\ pc' = [pc EXCEPT ![t] = "blocked"]
            /\ cur' = Some(t)
            /\ trace' = [trace EXCEPT ![t] = << >>]
            /\ UNCHANGED <<loc, dbLock, rpcLock>>
       ELSE /\ loc' = [loc EXCEPT ![t] = [IdleLoc EXCEPT !.op = "sync", !.ledger0 = Some(db)]]
            /\ pc' = [pc EXCEPT ![t] = "sync_await"]
            /\ cur' = None
            /\ dbLock' = Some(t)
            /\ rpcLock' = rpcLock \cup {t}
            /\ trace' = [trace EXCEPT ![t] = <<"process_account_sync">>]

\* lines 269-284: the result is logged.  What process_account_sync writes to
\* the ledger is the collaborator's; the ledger is kept as it is
sync_done(t) ==
    /\ ~crashed /\ cur = None /\ pc[t] = "sync_await"
    /\ \E sync_ok \in BOOLEAN :
         ui' = IF sync_ok THEN Log(ui, "buffer") ELSE Log(ui, "Failed sys account sync")
    /\ Return(t)
    /\ UNCHANGED <<db, trace, chain, crashed>>


-----------------------------------------------------------------------------
(* Specifications *)

Handlers(t) ==
    \/ do_withdraw(t)
    \/ do_withdraw_token_transfer(t)
    \/ do_withdraw_token_done(t)
    \/ do_withdraw_signer(t)
    \/ do_withdraw_result(t)
    \/ do_deactivate(t)
    \/ do_deactivate_result(t)
    \/ do_delegate(t)
    \/ do_delegate_result(t)
    \/ do_split(t)
    \/ do_split_call(t)
    \/ do_split_done(t)
    \/ do_swap(t)
    \/ do_swap_call(t)
    \/ do_swap_done(t)
    \/ do_merge(t)
    \/ do_merge_call(t)
    \/ do_merge_done(t)
    \/ sync(t)
    \/ sync_done(t)

Engine(t) ==
    \/ process_stake_withdraw_build(t)
    \/ process_stake_withdraw_simulate(t)
    \/ process_stake_withdraw_sign(t)
    \/ process_stake_withdraw_record(t)
    \/ process_stake_withdraw_send(t)
    \/ process_stake_withdraw_cancel(t)
    \/ process_stake_withdraw_date(t)
    \/ process_stake_withdraw_date_done(t)
    \/ process_stake_withdraw_confirm(t)
    \/ process_stake_withdraw_finish(t)

\* the application: UI events, then the handler tasks the user starts, which
\* interleave at their awaits
Next ==
    \/ AccountItem_onclick
    \/ select_lot
    \/ Input_oninput
    \/ \E t \in Tasks : Handlers(t) \/ Engine(t)

Spec == Init /\ [][Next]_vars

\* the engine function under every argument its signature admits
NextEngine ==
    \/ process_stake_withdraw("t1")
    \/ process_stake_withdraw_return("t1")
    \/ Engine("t1")

SpecEngine == InitEngine /\ [][NextEngine]_vars

-----------------------------------------------------------------------------
(* The price refresh coroutine (195-217) and the json_rpc_url input        *)
(* (340-350).  Both run on the UI thread, as the handler tasks do.          *)

\* the application has built its statics and has not exited
AppRunning == pc["app"] = "running"

\* the tokens of a round, in its order: native SOL, then every Token variant
PriceTokens == <<SOL, USDC>>

\* the current price of a token, between the prices lots were acquired at
CurrentPrices == {2}

\* what a price lookup can answer: an error, or a price
PriceAnswers == {None} \cup {Some(price) : price \in CurrentPrices}

\* prices.write().insert(token.to_string(), price), price being 0 when the
\* lookup failed
InsertPrice(prices, token, answer) ==
    [t \in DOMAIN prices \cup {token} |->
        IF t = token THEN (IF IsSome(answer) THEN Unwrap(answer) ELSE 0) ELSE prices[t]]

InRound == pc["price"] # "sleep"

\* lines 204-209: a round begins: RPC.read(), then the first price lookup
\* suspends the coroutine with the read guard held
price_round ==
    /\ AppRunning /\ ~crashed /\ cur = None /\ pc["price"] = "sleep"
    /\ pc' = [pc EXCEPT !["price"] = PriceTokens[1]]
    /\ rpcLock' = rpcLock \cup {"price"}
    /\ UNCHANGED <<db, ui, loc, trace, cur, dbLock, chain, crashed>>

\* lines 206-212: a lookup answers, its price is stored and the lookup of
\* the next token suspends the coroutine
price_lookup ==
    /\ AppRunning /\ ~crashed /\ cur = None
    /\ \E i \in 1..(Len(PriceTokens) - 1), answer \in PriceAnswers :
          /\ pc["price"] = PriceTokens[i]
          /\ ui' = [ui EXCEPT !.prices = InsertPrice(@, PriceTokens[i], answer)]
          /\ pc' = [pc EXCEPT !["price"] = PriceTokens[i + 1]]
    /\ UNCHANGED <<db, loc, trace, cur, dbLock, rpcLock, chain, crashed>>

\* lines 206-215: the last lookup of the round answers, its price is stored,
\* drop(rpc), sleep(30 s)
price_round_done ==
    /\ AppRunning /\ ~crashed /\ cur = None /\ pc["price"] = PriceTokens[Len(PriceTokens)]
    /\ \E answer \in PriceAnswers :
          ui' = [ui EXCEPT !.prices = InsertPrice(@, PriceTokens[Len(PriceTokens)], answer)]
    /\ pc' = [pc EXCEPT !["price"] = "sleep"]
    /\ rpcLock' = rpcLock \ {"price"}
    /\ UNCHANGED <<db, loc, trace, cur, dbLock, chain, crashed>>

Urls == {"url0", "url1"}

\* lines 344-349: state.url is set, then RPC.write() replaces the clients.
\* While a suspended task holds a read guard the call cannot return, and the
\* holder, a task of this thread, cannot run to release it
url_oninput ==
    /\ AppRunning /\ ~crashed /\ cur = None
    /\ \E value \in Urls : ui' = [ui EXCEPT !.url = value]
    /\ IF rpcLock # {}
       THEN /\ pc' = [pc EXCEPT !["url"] = "blocked"]
            /\ cur' = Some("url")
       ELSE UNCHANGED <<pc, cur>>
    /\ UNCHANGED <<db, loc, trace, dbLock, rpcLock, chain, crashed>>

NextRefresh ==
    \/ price_round
    \/ price_lookup
    \/ price_round_done
    \/ url_oninput
    \/ AccountItem_onclick
    \/ select_lot
    \/ Input_oninput
    \/ Handlers("t1")
    \/ Engine("t1")

\* one handler task beside the price refresh and the url input
SpecRefresh == Init /\ [][NextRefresh]_vars

\* what get_account_balance can answer: the lamports of an account that
\* exists on the network (an account holding none does not exist), or an error
FetchedBalances == {None} \cup {Some(n) : n \in 1..MaxNet}

\* adjust_balance on its own, as the handlers call it (1469, 1516, 1593,
\* 1634, 1688, 1769, 1845): any address, any answer of the network
call_adjust_balance(t) ==
    /\ ~crashed /\ cur = None /\ pc[t] = "idle"
    /\ Len(SelectSeq(trace[t], LAMBDA e : e = "adjust_balance")) < MaxCalls
    /\ \E address \in {StakeAddr, TokenAddr, AuthAddr, OtherAddr}, fetched \in FetchedBalances :
         LET adjusted == adjust_balance(db, address, get_account_balance_or_default(fetched)) IN
         /\ loc' = [loc EXCEPT ![t] = [IdleLoc EXCEPT !.op = "adjust",
                                                      !.authority_address = address,
                                                      !.fetched = fetched,
                                                      !.ledger0 = Some(db)]]
         /\ trace' = [trace EXCEPT ![t] =
                        @ \o (IF adjusted.updated THEN <<"adjust_balance", "update_account">>
                                                  ELSE <<"adjust_balance">>)]
         /\ db' = adjusted.db
         /\ crashed' = adjusted.panic
    /\ UNCHANGED <<ui, pc, cur, dbLock, rpcLock, chain>>

NextAdjust == call_adjust_balance("t1")

\* adjust_balance alone, called up to MaxCalls times in a row
SpecAdjust == InitAdjust /\ [][NextAdjust]_vars

-----------------------------------------------------------------------------
(* The selection across operations: account and lot clicks before, between  *)
(* and after the handler tasks                                              *)

AccountItem_onclick_between == UiQuiet /\ AccountItem_click

select_lot_between == UiQuiet /\ select_lot_click

NextSelection ==
    \/ AccountItem_onclick_between
    \/ select_lot_between
    \/ \E t \in Tasks : Handlers(t) \/ Engine(t)

SpecSelection == Init /\ [][NextSelection]_vars

-----------------------------------------------------------------------------
(* The amount field alone: texts typed one character at a time *)

AmountChars == {"0", "1", "5", ".", "x"}

\* the texts one keystroke away: a character typed or deleted at any place
Edits(text) ==
    {SubSeq(text, 1, i) \o <<c>> \o SubSeq(text, i + 1, Len(text)) :
        i \in 0..Len(text), c \in IF Len(text) < MaxText THEN AmountChars ELSE {}}
    \cup {SubSeq(text, 1, i - 1) \o SubSeq(text, i + 1, Len(text)) : i \in 1..Len(text)}

Input_amount_oninput ==
    /\ \E value \in Edits(ui.amount_text) : ui' = Input_amount(ui, value)
    /\ UNCHANGED <<db, pc, loc, trace, cur, dbLock, rpcLock, chain, crashed>>

NextInput == Input_amount_oninput

SpecInput == Init /\ [][NextInput]_vars

-----------------------------------------------------------------------------
(* Process instances and the lock on the database file (57-78).  "app" is   *)
(* this process, "other" a second process started on the same database.    *)
(* An instance is at "start", at "retry" (try_write failed, it sleeps one   *)
(* second), at "opening" (it has the write lock and opens the database),    *)
(* "running" (the initializer of DB has returned) or "exited".              *)

Instances == {"app", "other"}

holds_file_lock_until_exit(position) == position \in {"opening", "running"}

\* the positions at which an instance holds the write lock on the file:
\* _db_write_lock and db_fd_lock are locals of the initializer of DB and are
\* dropped, the lock released and the file closed, when it returns
holds_file_lock(position) == position = "opening"

FileLockHeldBy(i) == holds_file_lock(pc[i])

\* lines 60-72: db_fd_lock.try_write(): the lock, or the message and a
\* sleep of one second before the next attempt
instance_try_write(i) ==
    /\ pc[i] \in {"start", "retry"}
    /\ IF \E j \in Instances \ {i} : FileLockHeldBy(j)
       THEN pc' = [pc EXCEPT ![i] = "retry"]
       ELSE pc' = [pc EXCEPT ![i] = "opening"]
    /\ UNCHANGED <<db, ui, loc, trace, cur, dbLock, rpcLock, chain, crashed>>

\* lines 73-77: db::new(&db_path): the ledger is opened and the initializer
\* returns the shared value, or the process exits with status 1
instance_opened(i) ==
    /\ pc[i] = "opening"
    /\ \E opened \in BOOLEAN :
          pc' = [pc EXCEPT ![i] = IF opened THEN "running" ELSE "exited"]
    /\ UNCHANGED <<db, ui, loc, trace, cur, dbLock, rpcLock, chain, crashed>>

\* the window is closed: the process ends
instance_exit(i) ==
    /\ pc[i] = "running"
    /\ pc' = [pc EXCEPT ![i] = "exited"]
    /\ UNCHANGED <<db, ui, loc, trace, cur, dbLock, rpcLock, chain, crashed>>

\* both processes are started; neither has touched the database yet
InitInstances ==
    /\ db = OpenedDb
    /\ ui = InitUi
    /\ pc = [t \in Tasks |-> "idle"] @@ ("price" :> "sleep") @@ ("url" :> "idle")
            @@ ("app" :> "start") @@ ("other" :> "start")
    /\ loc = [t \in Tasks |-> IdleLoc]
    /\ trace = [t \in Tasks |-> << >>]
    /\ cur = None
    /\ dbLock = None
    /\ rpcLock = {}
    /\ chain = {}
    /\ crashed = FALSE

NextInstances ==
    \/ \E i \in Instances : instance_try_write(i)
    \/ \E i \in Instances : instance_opened(i)
    \/ \E i \in Instances : instance_exit(i)
    \/ price_round
    \/ price_lookup
    \/ price_round_done
    \/ url_oninput

\* two processes on one database, this one with its price refresh and url
\* input once it runs
SpecInstances == InitInstances /\ [][NextInstances]_vars

-----------------------------------------------------------------------------
(* Reports: holding periods, gains, income and tax.  Dates are day numbers  *)
(* and prices whole dollars.  A token quantity is kept exactly, as a number *)
(* of 1/DollarScale tokens, so a dollar figure is in 1/DollarScale dollars  *)
(* and a tax figure in 1/(DollarScale * RateScale) dollars.  A lot of a     *)
(* report carries its acquisition price and kind next to its date.          *)

\* the holding period, in days, from which a lot is long-term
LongTermDays == 365

\* NaiveDate::signed_duration_since(from).num_days(): the whole days from
\* `from` to `to`, negative when `to` is the earlier date
num_days(from, to) == to - from

DollarScale == UnitsPerToken(SOL) * UnitsPerToken(USDC)

\* MaybeToken::ui_amount: the quantity amount / 10^decimals
ui_amount(token, amount) == amount * (DollarScale \div UnitsPerToken(token))

EpochReward == "EpochReward"
LotAcquistionKind == {EpochReward, "Transaction"}

RECURSIVE Sum(_)
Sum(numbers) ==
    IF numbers = << >> THEN 0 ELSE Head(numbers) + Sum(Tail(numbers))

\* a row of the live-lot table
LotItem(token, lot, price, today) ==
    [lot_number |-> lot.lot_number,
     term |-> IF num_days(lot.when, today) < LongTermDays THEN "S" ELSE "L",
     gain |-> ui_amount(token, lot.amount) * (price - lot.price)]

\* the rows of the selected account, at the price of its token
Lots(u, today) ==
    IF IsSome(u.account)
    THEN LET account == Unwrap(u.account)
             price == IF account.token \in DOMAIN u.prices THEN u.prices[account.token] ELSE 0
         IN [i \in 1..Len(account.lots) |-> LotItem(account.token, account.lots[i], price, today)]
    ELSE << >>

\* the income column of a disposed lot
DisposedLotItem_income(lot) ==
    IF lot.lot.kind = EpochReward
    THEN lot.lot.price * ui_amount(lot.token, lot.lot.amount)
    ELSE 0

\* a row of the disposed-lot table
DisposedLotItem(lot) ==
    LET acq_price == lot.lot.price
        sale_price == lot.price
    IN [lot_number |-> lot.lot.lot_number,
        income |-> DisposedLotItem_income(lot),
        gain |-> ui_amount(lot.token, lot.lot.amount) * (sale_price - acq_price),
        term |-> IF num_days(lot.lot.when, lot.when) < LongTermDays THEN "S" ELSE "L"]

aggregate_is_short_inclusive(from, to) == num_days(from, to) <= LongTermDays

\* the test by which each bucket of the disposed-lot aggregate takes a lot
aggregate_is_short(from, to) == num_days(from, to) < LongTermDays

AggregateGain(x) == ui_amount(x.token, x.lot.amount) * x.price - ui_amount(x.token, x.lot.amount) * x.lot.price
AggregateIncome(x) == IF x.lot.kind = EpochReward THEN ui_amount(x.token, x.lot.amount) * x.lot.price ELSE 0
aggregate_step_both_buckets(acc, x) == [amount |-> IF x.token = SOL THEN acc.amount + x.lot.amount ELSE acc.amount, value |-> acc.value + ui_amount(x.token, x.lot.amount) * x.price, income |-> acc.income + AggregateIncome(x), short_gain |-> IF aggregate_is_short(x.lot.when, x.when) THEN acc.short_gain + AggregateGain(x) ELSE acc.short_gain, long_gain |-> acc.long_gain + AggregateGain(x)]
aggregate_step_income_of_any_kind(acc, x) == [amount |-> IF x.token = SOL THEN acc.amount + x.lot.amount ELSE acc.amount, value |-> acc.value + ui_amount(x.token, x.lot.amount) * x.price, income |-> acc.income + ui_amount(x.token, x.lot.amount) * x.lot.price, short_gain |-> IF aggregate_is_short(x.lot.when, x.when) THEN acc.short_gain + AggregateGain(x) ELSE acc.short_gain, long_gain |-> IF aggregate_is_short(x.lot.when, x.when) THEN acc.long_gain ELSE acc.long_gain + AggregateGain(x)]
aggregate_step_all_tokens(acc, x) == [amount |-> acc.amount + x.lot.amount, value |-> acc.value + ui_amount(x.token, x.lot.amount) * x.price, income |-> acc.income + AggregateIncome(x), short_gain |-> IF aggregate_is_short(x.lot.when, x.when) THEN acc.short_gain + AggregateGain(x) ELSE acc.short_gain, long_gain |-> IF aggregate_is_short(x.lot.when, x.when) THEN acc.long_gain ELSE acc.long_gain + AggregateGain(x)]

\* the closure of the fold of the disposed-lot aggregate
aggregate_step(acc, x) ==
    LET amount == ui_amount(x.token, x.lot.amount)
        basis == amount * x.lot.price
        value == amount * x.price
    IN [amount |-> IF x.token = SOL THEN acc.amount + x.lot.amount ELSE acc.amount,
        value |-> acc.value + amount * x.price,
        income |-> IF x.lot.kind = EpochReward
                   THEN acc.income + amount * x.lot.price
                   ELSE acc.income,
        short_gain |-> IF aggregate_is_short(x.lot.when, x.when)
                       THEN acc.short_gain + value - basis
                       ELSE acc.short_gain,
        long_gain |-> IF aggregate_is_short(x.lot.when, x.when)
                      THEN acc.long_gain
                      ELSE acc.long_gain + value - basis]

\* DisposedSummary::aggregate: the fold over the lots whose number
\* satisfies p (a set of lot numbers), in the order of the list
RECURSIVE aggregate(_, _)
aggregate(lots, p) ==
    IF lots = << >>
    THEN [amount |-> 0, value |-> 0, income |-> 0, short_gain |-> 0, long_gain |-> 0]
    ELSE LET x == lots[Len(lots)]
             acc == aggregate(SubSeq(lots, 1, Len(lots) - 1), p)
         IN IF x.lot.lot_number \in p THEN aggregate_step(acc, x) ELSE acc

\* the two lines of the disposed-lot summary
DisposedSummary(d, disposed_selected) ==
    [count |-> Len(d.disposed),
     total |-> aggregate(d.disposed, Nat),
     selected |-> IF disposed_selected # {}
                  THEN Some([count |-> Cardinality(disposed_selected),
                             total |-> aggregate(d.disposed, disposed_selected)])
                  ELSE None]

\* the disposed-lot rows, in the ledger's order
Disposed(d) == [i \in 1..Len(d.disposed) |-> DisposedLotItem(d.disposed[i])]

\* tax rates are in 1/RateScale
RateScale == 10000
DefaultLongTermGainTaxRate == 2200
DefaultShortTermGainTaxRate == 3935

Summary_tax_per_bucket(short_gain, long_gain, short_term_gain_tax_rate, long_term_gain_tax_rate) == short_gain * short_term_gain_tax_rate + long_gain * long_term_gain_tax_rate

\* the tax on a positive total gain
Summary_tax(short_gain, long_gain, short_term_gain_tax_rate, long_term_gain_tax_rate) ==
    IF short_gain > 0 /\ long_gain > 0
    THEN short_gain * short_term_gain_tax_rate + long_gain * long_term_gain_tax_rate
    ELSE IF long_gain > 0
    THEN (short_gain + long_gain) * long_term_gain_tax_rate
    ELSE (short_gain + long_gain) * short_term_gain_tax_rate

\* the holdings summary of the main view
Summary(d, u, today) ==
    LET rates == IF IsSome(d.tax_rate)
                 THEN <<Unwrap(d.tax_rate).long_term_gain, Unwrap(d.tax_rate).short_term_gain>>
                 ELSE <<DefaultLongTermGainTaxRate, DefaultShortTermGainTaxRate>>
        long_term_gain_tax_rate == rates[1]
        short_term_gain_tax_rate == rates[2]
        accounts == get_accounts(d)
        tokens == SelectSeq(<<SOL, USDC>>,
                            LAMBDA t : \E i \in 1..Len(accounts) : accounts[i][2] = t)
        held_token(t) == LET of_token == SelectSeq(accounts, LAMBDA k : k[2] = t)
                         IN Sum([i \in 1..Len(of_token) |->
                                    d.accounts[of_token[i]].last_update_balance])
        PriceOf(t) == IF t \in DOMAIN u.prices THEN u.prices[t] ELSE 0
        selected_price == IF IsSome(u.account)
                             /\ \E i \in 1..Len(tokens) : tokens[i] = Unwrap(u.account).token
                          THEN PriceOf(Unwrap(u.account).token)
                          ELSE 0
        total == Sum([i \in 1..Len(tokens) |->
                         PriceOf(tokens[i]) * ui_amount(tokens[i], held_token(tokens[i]))])
    IN IF u.selected # {} /\ IsSome(u.account)
       THEN LET account == Unwrap(u.account)
                lots == SelectSeq(account.lots, LAMBDA x : x.lot_number \in u.selected)
                Amount(x) == ui_amount(account.token, x.amount)
                short_gain == Sum([i \in 1..Len(lots) |->
                                      IF num_days(lots[i].when, today) < LongTermDays
                                      THEN Amount(lots[i]) * selected_price
                                           - Amount(lots[i]) * lots[i].price
                                      ELSE 0])
                long_gain == Sum([i \in 1..Len(lots) |->
                                     IF num_days(lots[i].when, today) < LongTermDays
                                     THEN 0
                                     ELSE Amount(lots[i]) * selected_price
                                          - Amount(lots[i]) * lots[i].price])
                gain == short_gain + long_gain
            IN [total |-> total,
                lots |-> Some([value |-> ui_amount(account.token, SumAmounts(lots)) * selected_price,
                               cost |-> Sum([i \in 1..Len(lots) |-> lots[i].price * Amount(lots[i])]),
                               short_gain |-> short_gain,
                               long_gain |-> long_gain,
                               gain |-> gain]),
                tax |-> IF gain > 0
                        THEN Some(Summary_tax(short_gain, long_gain,
                                              short_term_gain_tax_rate, long_term_gain_tax_rate))
                        ELSE None]
       ELSE [total |-> total, lots |-> None, tax |-> None]

\* the inputs of the reports: acquisitions on day 1 or 2, disposals and
\* today around the day the first of them turns long-term
AcquisitionDates == {1, 2}
ReportDates == {LongTermDays, LongTermDays + 1, LongTermDays + 2}
AcquisitionPrices == {1, 3}
TaxRates == {None, Some([long_term_gain |-> 1000, short_term_gain |-> 2000])}

ReportLot(n, amount, when, price, kind) ==
    [lot_number |-> n, amount |-> amount, when |-> when, price |-> price, kind |-> kind]

\* the disposed lot number n: of any token, disposal date, price and kind
DisposedLotsNumbered(n) ==
    {[lot |-> ReportLot(n, IF n = 1 THEN MaxAmount ELSE 1, 1, p, k),
      token |-> t, when |-> w, price |-> s] :
        p \in AcquisitionPrices, k \in LotAcquistionKind, t \in {SOL, USDC},
        w \in ReportDates, s \in CurrentPrices}

RECURSIVE DisposedLots(_)
DisposedLots(n) ==
    IF n = 0 THEN {<< >>}
    ELSE {Append(lots, x) : lots \in DisposedLots(n - 1), x \in DisposedLotsNumbered(n)}

\* lots of 100 at $10 and 50 at $20, disposed at $15
ExampleDisposed ==
    <<[lot |-> ReportLot(1, TokenAmount(SOL, 100 * FieldScale), 1, 10, "Transaction"),
       token |-> SOL, when |-> LongTermDays, price |-> 15],
      [lot |-> ReportLot(2, TokenAmount(SOL, 50 * FieldScale), 1, 20, EpochReward),
       token |-> SOL, when |-> LongTermDays + 1, price |-> 15]>>

\* the live lots of the stake account, each acquired on any date at any price
LiveLots ==
    {[i \in 1..MaxLots |-> ReportLot(i, IF i = 1 THEN MaxAmount ELSE 1, w[i], p[i], k[i])] :
        w \in [1..MaxLots -> AcquisitionDates], p \in [1..MaxLots -> AcquisitionPrices],
        k \in [1..MaxLots -> {"Transaction"}]}

\* the disposed-lot view over any disposed lots and any selection of them
InitDisposed ==
    /\ \E lots \in UNION {DisposedLots(n) : n \in 0..MaxLots} \cup {ExampleDisposed} :
          db = [OpenedDb EXCEPT !.disposed = lots]
    /\ \E disposed_selected \in SUBSET {db.disposed[i].lot.lot_number : i \in 1..Len(db.disposed)} :
          ui = [InitUi EXCEPT !.disposed_selected = disposed_selected]

\* the main view over any lots of the selected account, any selection of
\* them, the prices fetched or not, the tax rates configured or not
InitLots ==
    /\ \E lots \in LiveLots, tax_rate \in TaxRates :
          db = [OpenedDb EXCEPT !.accounts[Key(StakeAddr, SOL)] =
                                    [lots |-> lots, last_update_balance |-> SumAmounts(lots)],
                                !.tax_rate = tax_rate]
    /\ \E selected \in SUBSET (1..MaxLots),
          prices \in {<< >>} \cup {[t \in {SOL, USDC} |-> IF t = SOL THEN price ELSE 1] :
                                      price \in CurrentPrices} :
          ui = [InitUi EXCEPT !.account = Some(SnapshotOf(db, Key(StakeAddr, SOL))),
                              !.selected = selected,
                              !.prices = prices]

InitReport ==
    /\ InitDisposed \/ InitLots
    /\ Rest

\* a rendering of the main view: the lot rows and the summary, on one date
Main_render ==
    /\ \E today \in ReportDates :
          ui' = [ui EXCEPT !.report = Some([view |-> "main", today |-> today,
                                            rows |-> Lots(ui, today),
                                            summary |-> Summary(db, ui, today)])]
    /\ UNCHANGED <<db, pc, loc, trace, cur, dbLock, rpcLock, chain, crashed>>

\* a rendering of the disposed view: the disposed-lot rows and their summary
Disposed_render ==
    /\ ui' = [ui EXCEPT !.report = Some([view |-> "disposed",
                                         rows |-> Disposed(db),
                                         summary |-> DisposedSummary(db, ui.disposed_selected)])]
    /\ UNCHANGED <<db, pc, loc, trace, cur, dbLock, rpcLock, chain, crashed>>

NextReport == Main_render \/ Disposed_render

SpecReport == InitReport /\ [][NextReport]_vars

-----------------------------------------------------------------------------
(* The lot table alone: clicks on the rows and on the column headers of an  *)
(* account with any lots.  ui.click keeps the last click on a row: the lot, *)
(* the modifiers, the selection it found and the rows as they were shown.   *)

\* rows of the lot table: one more than the accounts of the ledger have
MaxRows == MaxLots + 1

\* up to MaxRows lots, numbered in the order of the account, each of any
\* amount, date and price
TableLots ==
    UNION {{[i \in 1..n |-> ReportLot(i, a[i], w[i], p[i], "Transaction")] :
               a \in [1..n -> 1..MaxAmount], w \in [1..n -> AcquisitionDates],
               p \in [1..n -> AcquisitionPrices]} : n \in 1..MaxRows}

InitTable ==
    /\ \E lots \in TableLots :
          /\ db = [OpenedDb EXCEPT !.accounts[Key(StakeAddr, SOL)] =
                                      [lots |-> lots, last_update_balance |-> SumAmounts(lots)]]
          /\ ui = [InitUi EXCEPT !.account = Some(SnapshotOf(db, Key(StakeAddr, SOL)))]
    /\ Rest

LotItem_onclick ==
    /\ IsSome(ui.account)
    /\ \E lot \in LotNumbers(Unwrap(ui.account).lots), modifiers \in {"none", "meta", "shift"} :
         ui' = [ui EXCEPT !.selected = select_lot_selected(ui, lot, modifiers),
                          !.click = Some([lot |-> lot, modifiers |-> modifiers,
                                          selected |-> ui.selected,
                                          rows |-> LET shown == SortLots(Unwrap(ui.account).lots,
                                                                         ui.sorted)
                                                   IN [i \in 1..Len(shown) |->
                                                          shown[i].lot_number]])]
    /\ UNCHANGED <<db, pc, loc, trace, cur, dbLock, rpcLock, chain, crashed>>

NextTable == LotItem_onclick \/ Lots_header_onclick

SpecTable == InitTable /\ [][NextTable]_vars

-----------------------------------------------------------------------------
(* Properties *)

Has(t, event) == \E i \in 1..Len(trace[t]) : trace[t][i] = event

Count(t, events) == Cardinality({i \in 1..Len(trace[t]) : trace[t][i] \in events})

SendEvents == {"send_true", "send_false", "send_unknown"}

ConfirmEvents == {"confirm_transfer", "confirm_transfer_err"}

LedgerEvents == {"record_transfer", "record_transfer_err", "cancel_transfer",
                 "cancel_transfer_err", "confirm_transfer", "confirm_transfer_err",
                 "remove_account", "remove_account_err", "record_drop", "record_drop_err",
                 "adjust_balance"}

\* the task runs process_stake_withdraw, called by do_withdraw or directly
InWithdrawEngine(t) == loc[t].op \in {"withdraw", "engine"}

\* process_stake_withdraw has just returned loc[t].result to its caller
EngineReturned(t) == pc[t] \in {"withdraw_result", "engine_result"}

Recorded(t) == Signature(t) \in DOMAIN db.transfers

Status(t) == db.transfers[Signature(t)].status

OnlyTask(t) == \A u \in Tasks \ {t} : pc[u] = "idle"

\* the sum of the lots of `lots` whose number is in `numbers`
LotsSum(lots, numbers) ==
    SumAmounts(SelectSeq(lots, LAMBDA l : l.lot_number \in numbers))

\* C1: whenever process_stake_withdraw returns an error, the ledger is exactly
\* as it was before the call or the transfer the call recorded is Cancelled;
\* no Pending transfer and no half-applied debit is left.
C1_ErrorLeavesLedgerCleanOrCancelled ==
    \A t \in Tasks :
        EngineReturned(t) /\ loc[t].result = "Err"
        => \/ db = Unwrap(loc[t].ledger0)
           \/ Recorded(t) /\ Status(t) = "Cancelled"

\* the state C1 excludes: an error returned after the settlement-date lookup
\* failed, the transfer still Pending and the lots still debited
C1_ErrorLeavesPending ==
    \E t \in Tasks :
        /\ EngineReturned(t) /\ loc[t].result = "Err"
        /\ Has(t, "get_signature_date_err")
        /\ Signature(t) \in PendingSignatures(db)
        /\ db.accounts # Unwrap(loc[t].ledger0).accounts

\* C2: when the submission does not succeed (it answers false, or fails),
\* cancel_transfer is called for the recorded signature, confirm_transfer is
\* not, an error is returned and the accounts (live lots, balances) are what
\* they were before record_transfer.
C2_FailedSubmissionCancels ==
    \A t \in Tasks :
        EngineReturned(t) /\ (Has(t, "send_false") \/ Has(t, "send_unknown"))
        => /\ Has(t, "cancel_transfer")
           /\ Count(t, ConfirmEvents) = 0
           /\ loc[t].result = "Err"
           /\ Recorded(t) /\ Status(t) = "Cancelled"
           /\ db.accounts = Unwrap(loc[t].ledger0).accounts

C2_SubmissionFailed ==
    \E t \in Tasks :
        /\ EngineReturned(t) /\ Has(t, "send_false")
        /\ Has(t, "cancel_transfer")
        /\ Unwrap(loc[t].ledger0).accounts[Key(StakeAddr, SOL)].lots # << >>

\* C3: for withdraw, delegate and deactivate, once the simulation reported an
\* execution error the transaction is neither signed nor submitted and the
\* operation, its do_* handler included, leaves the ledger as it was.
C3_SimulationErrorLeavesLedger ==
    \A t \in Tasks :
        Has(t, "simulate_execution_error") /\ OnlyTask(t)
        => /\ ~Has(t, "sign")
           /\ Count(t, SendEvents) = 0
           /\ db = Unwrap(loc[t].ledger0)

\* the state C3 excludes: do_deactivate or do_delegate returned after a
\* simulation execution error, and adjust_balance has changed the ledger
C3_SimulationErrorThenAdjusted ==
    \E t \in Tasks :
        /\ Has(t, "simulate_execution_error") /\ OnlyTask(t)
        /\ loc[t].op \in {"deactivate", "delegate"}
        /\ pc[t] = "done"
        /\ Has(t, "adjust_balance")
        /\ db # Unwrap(loc[t].ledger0)

\* C4: in process_stake_withdraw every submission is preceded by a successful
\* record_transfer, so the transfer is Pending in the ledger when the
\* transaction is handed to the network; after a failed record_transfer the
\* transaction is never submitted.
C4_RecordedBeforeSubmission ==
    \A t \in Tasks :
        InWithdrawEngine(t)
        => /\ \A i \in 1..Len(trace[t]) :
                 trace[t][i] \in SendEvents
                 => \E j \in 1..(i - 1) : trace[t][j] = "record_transfer"
           /\ Has(t, "record_transfer_err")
              => Count(t, SendEvents) = 0 /\ Signature(t) \notin chain
           /\ pc[t] = "psw_send" => Signature(t) \in PendingSignatures(db)

C4_RecordFailed ==
    \E t \in Tasks :
        /\ EngineReturned(t) /\ Has(t, "record_transfer_err")
        /\ loc[t].result = "Err"

\* C5: in process_stake_withdraw confirm_transfer is called only after the
\* submission answered landed and then the settlement date was resolved, at
\* most once, for the recorded signature and with the resolved date.
C5_ConfirmAfterLandedAndDated ==
    \A t \in Tasks :
        InWithdrawEngine(t)
        => /\ \A i \in 1..Len(trace[t]) :
                 trace[t][i] \in ConfirmEvents
                 => \E j \in 1..(i - 1), k \in 1..(i - 1) :
                        /\ j < k
                        /\ trace[t][j] = "send_true"
                        /\ trace[t][k] = "get_signature_date"
           /\ Count(t, ConfirmEvents) <= 1
           /\ pc[t] = "psw_confirm"
              => /\ loc[t].signature = Signature(t)
                 /\ Signature(t) \in PendingSignatures(db)
                 /\ loc[t].when \in Dates
           /\ Has(t, "confirm_transfer")
              => /\ Recorded(t) /\ Status(t) = "Confirmed"
                 /\ db.transfers[Signature(t)].when = Some(loc[t].when)

C5_Confirmed ==
    \E t \in Tasks :
        /\ EngineReturned(t) /\ loc[t].result = "Ok"
        /\ Has(t, "confirm_transfer")
        /\ Status(t) = "Confirmed"

\* C6: when process_stake_withdraw returns, the status of the transfer it
\* recorded agrees with the chain: a Cancelled transfer did not land, a landed
\* transaction's transfer is Confirmed; for every answer of the submission.
C6_LedgerAgreesWithChain ==
    \A t \in Tasks :
        EngineReturned(t) /\ Recorded(t)
        => /\ Status(t) = "Cancelled" => Signature(t) \notin chain
           /\ Signature(t) \in chain => Status(t) = "Confirmed"

\* the state C6 excludes: the submission failed to answer, the transaction
\* landed, and the transfer was cancelled with its lots restored
C6_CancelledButLanded ==
    \E t \in Tasks :
        /\ EngineReturned(t) /\ Has(t, "send_unknown")
        /\ Recorded(t) /\ Status(t) = "Cancelled"
        /\ Signature(t) \in chain
        /\ db.accounts = Unwrap(loc[t].ledger0).accounts

\* the positions of a SOL withdraw from before record_transfer until its
\* engine call has returned
TransferSpan == {"psw_record", "psw_send", "psw_cancel", "psw_date", "psw_date_await",
                 "psw_confirm", "psw_remove", "withdraw_result"}

\* positions at which a task holds no ledger guard and has made no ledger call
OffLedger == {"idle", "done", "blocked", "deactivate_result", "delegate_result"}

\* C7: during a SOL withdraw started by do_withdraw the task holds the ledger
\* write lock from before record_transfer until after confirm_transfer or
\* cancel_transfer, and meanwhile no other task is at a position where it
\* reads or changes the ledger.
C7_LockHeldAcrossTransfer ==
    \A t \in Tasks :
        loc[t].op = "withdraw" /\ pc[t] \in TransferSpan
        => /\ dbLock = Some(t)
           /\ \A u \in Tasks \ {t} : pc[u] \in OffLedger

C7_OtherTaskKeptOut ==
    \E t \in Tasks, u \in Tasks :
        /\ t # u
        /\ loc[t].op = "withdraw" /\ pc[t] = "psw_date_await"
        /\ Signature(t) \in PendingSignatures(db)
        /\ pc[u] = "blocked"

\* C8: in withdraw-all mode (amount = None), once the transfer is confirmed
\* the assertion holds, the source account has no live lot and it is removed
\* from the ledger; also when the recorded balance and the lots differ.
C8_WithdrawAllEmptiesAccount ==
    \A t \in Tasks :
        /\ InWithdrawEngine(t) /\ loc[t].withdraw_all
        /\ Has(t, "confirm_transfer") /\ pc[t] # "psw_remove"
        => /\ ~Has(t, "assert_failed")
           /\ ~crashed
           /\ Key(loc[t].stake_address, SOL) \notin DOMAIN db.accounts

\* the state C8 excludes: the withdraw-all transfer is confirmed, a lot is
\* left in the source account and the assertion has failed
C8_WithdrawAllLeavesLot ==
    \E t \in Tasks :
        /\ loc[t].withdraw_all /\ Has(t, "confirm_transfer")
        /\ Has(t, "assert_failed") /\ crashed
        /\ db.accounts[Key(loc[t].stake_address, SOL)].lots # << >>

C10_TokenWithdrawDebitsAtOnce ==
    \A t \in Tasks :
        /\ loc[t].op = "withdraw" /\ Unwrap(loc[t].account).token # SOL
        /\ pc[t] = "done"
        => /\ Has(t, "token_transfer_err")
              => /\ Count(t, LedgerEvents) = 0
                 /\ OnlyTask(t) => db = Unwrap(loc[t].ledger0)
           /\ Has(t, "token_transfer_ok") => Has(t, "record_drop")
           /\ ~Recorded(t)

\* the state C10 excludes: the tokens were transferred, the handler has
\* returned, and the ledger still holds the lots
C10_TransferredButNotDebited ==
    \E t \in Tasks :
        /\ loc[t].op = "withdraw" /\ Unwrap(loc[t].account).token # SOL
        /\ pc[t] = "done" /\ OnlyTask(t)
        /\ Has(t, "token_transfer_ok")
        /\ ~Has(t, "record_drop")
        /\ db.accounts[Key(TokenAddr, USDC)] = Unwrap(loc[t].ledger0).accounts[Key(TokenAddr, USDC)]

-----------------------------------------------------------------------------
(* Failure messages *)

\* the messages the handlers format for a failed operation
FailureMessages ==
    {"Failed solana deactivate-stake", "Failed solana delegate-stake",
     "Failed solana withdraw-stake", "Failed sys account split",
     "Failed sys account merge", "Failed sys jup swap", "Failed sync swaps",
     "Failed spl-token transfer", "Failed to drop lots"}

\* the error results the underlying operations of a handler gave
FailureEvents ==
    {"process_account_split_err", "process_account_merge_err", "process_jup_swap_err",
     "process_sync_swaps_err", "token_transfer_err", "record_drop_err"}

\* task t's handler has returned after one of its operations failed
ReturnedAfterFailure(t) ==
    /\ pc[t] = "done"
    /\ \/ loc[t].op \in {"deactivate", "delegate", "withdraw"} /\ loc[t].result = "Err"
       \/ Count(t, FailureEvents) > 0

\* C11: when the operation of a handler fails, the log holds a failure
\* message for it at the moment the handler returns (no other task has run,
\* so the log is the one the handler left).
C11_FailureIsLogged ==
    \A t \in Tasks :
        (ReturnedAfterFailure(t) /\ OnlyTask(t))
            => (IsSome(ui.log) /\ Unwrap(ui.log) \in FailureMessages)

\* C11: a deactivate whose engine returned an error has returned with the
\* log holding the output buffer in place of the failure message
C11_FailureOverwritten ==
    \E t \in Tasks :
        /\ ReturnedAfterFailure(t) /\ OnlyTask(t)
        /\ loc[t].op = "deactivate"
        /\ Has(t, "adjust_balance")
        /\ ui.log = Some("buffer")

-----------------------------------------------------------------------------
(* One pass through the transaction pipeline *)

BlockhashEvents == {"get_latest_blockhash", "get_latest_blockhash_err"}

SimulateEvents == {"simulate", "simulate_err", "simulate_execution_error"}

SimulationFailures == {"simulate_err", "simulate_execution_error"}

SubmissionFailures == {"send_false", "send_unknown"}

StakeOps == {"withdraw", "engine", "deactivate", "delegate"}

\* the stake engine called by task t has returned a result
StakeEngineReturned(t) == loc[t].op \in StakeOps /\ loc[t].result \in {"Ok", "Err"}

\* no event of the set follows position i of task t's calls
NoneAfter(t, i, events) ==
    \A j \in (i + 1)..Len(trace[t]) : trace[t][j] \notin events

\* C12: one invocation of a stake engine fetches the blockhash once,
\* simulates at most once and submits at most once; after a failed simulation
\* or a failed or expired submission nothing is simulated or submitted again.
C12_NoRetry ==
    \A t \in Tasks :
        loc[t].op \in StakeOps =>
            /\ Count(t, BlockhashEvents) <= 1
            /\ Count(t, SimulateEvents) <= 1
            /\ Count(t, SendEvents) <= 1
            /\ StakeEngineReturned(t) => Count(t, BlockhashEvents) = 1
            /\ \A i \in 1..Len(trace[t]) :
                 trace[t][i] \in SimulationFailures \cup SubmissionFailures
                    => NoneAfter(t, i, SimulateEvents \cup SendEvents \cup {"sign"})

\* C12: one handler has returned after a failed simulation and another after
\* an expired submission
C12_ReturnedAfterFailures ==
    \E t, u \in Tasks :
        /\ pc[t] = "done" /\ StakeEngineReturned(t) /\ Count(t, SimulationFailures) = 1
        /\ pc[u] = "done" /\ StakeEngineReturned(u) /\ Has(u, "send_false")

\* position i of task t's calls is preceded by the call `event`
Preceded(t, i, event) == \E j \in 1..(i - 1) : trace[t][j] = event

\* C13: a stake operation goes Built, Simulated(ok), Signed, Submitted in
\* that order without skipping: simulation after the blockhash fetch, signing
\* after a successful simulation, the Pending record and the submission after
\* signing; the blockhash on the transaction and at signing, the ceiling in
\* the Pending transfer and the ceiling given to submission are those of the
\* invocation's one blockhash fetch.
C13_PipelineInOrder ==
    \A t \in Tasks :
        loc[t].op \in StakeOps =>
            /\ \A i \in 1..Len(trace[t]) :
                 /\ trace[t][i] \in SimulateEvents => Preceded(t, i, "get_latest_blockhash")
                 /\ trace[t][i] \in {"sign", "sign_err"} => Preceded(t, i, "simulate")
                 /\ trace[t][i] \in {"record_transfer", "record_transfer_err"}
                        => Preceded(t, i, "sign")
                 /\ trace[t][i] \in SendEvents => Preceded(t, i, "sign")
            /\ Has(t, "simulate") =>
                 /\ loc[t].recent_blockhash = Blockhash(t)
                 /\ loc[t].tx_blockhash = loc[t].recent_blockhash
                 /\ loc[t].last_valid_block_height = BlockHeight(t)
            /\ Has(t, "sign") => loc[t].sign_blockhash = loc[t].recent_blockhash
            /\ Has(t, "record_transfer") =>
                 /\ Recorded(t)
                 /\ db.transfers[Signature(t)].last_valid_block_height
                        = loc[t].last_valid_block_height
            /\ Count(t, SendEvents) > 0 =>
                 loc[t].send_ceiling = loc[t].last_valid_block_height

\* C13: a withdraw went through the whole pipeline: recorded, submitted and
\* landed, and its handler has returned
C13_WentThroughPipeline ==
    \E t \in Tasks :
        /\ loc[t].op = "withdraw" /\ pc[t] = "done"
        /\ Has(t, "record_transfer") /\ Has(t, "send_true")

-----------------------------------------------------------------------------
(* adjust_balance.  The last call is described by loc["t1"]: the ledger it  *)
(* was given, the address and what the network answered.                    *)

AdjustCalled == loc["t1"].op = "adjust"

AdjustBefore == Unwrap(loc["t1"].ledger0)

AdjustKey == Key(loc["t1"].authority_address, SOL)

\* the call found a tracked SOL account for the address
AdjustTracked == AdjustCalled /\ AdjustKey \in DOMAIN AdjustBefore.accounts

AccountBefore == AdjustBefore.accounts[AdjustKey]

AccountAfter == db.accounts[AdjustKey]

\* the network answered with a balance lower than the recorded one
FetchedLower ==
    /\ AdjustTracked
    /\ IsSome(loc["t1"].fetched)
    /\ Unwrap(loc["t1"].fetched) < AccountBefore.last_update_balance

Shortfall == AccountBefore.last_update_balance - Unwrap(loc["t1"].fetched)

\* C14: when the network balance N is lower than the recorded balance B and
\* the shortfall B-N is smaller than the first lot's amount A, the first lot
\* becomes A-(B-N), the other lots stay and the recorded balance becomes N.
C14_Absorption ==
    (FetchedLower /\ Shortfall < AccountBefore.lots[1].amount) =>
        /\ AccountAfter.lots =
              [AccountBefore.lots EXCEPT ![1].amount = @ - Shortfall]
        /\ AccountAfter.last_update_balance = Unwrap(loc["t1"].fetched)

\* C14: a shortfall smaller than the first of two lots has been absorbed
C14_Absorbed ==
    /\ FetchedLower /\ Shortfall < AccountBefore.lots[1].amount
    /\ Len(AccountBefore.lots) >= 2
    /\ db # AdjustBefore

\* C15: when the network balance is not lower than the recorded balance, or
\* the shortfall is not smaller than the first lot's amount, or the balance
\* cannot be fetched, the ledger stays as it was and update_account is not
\* called.
C15_NoAdjustment ==
    (/\ AdjustTracked
     /\ \/ ~IsSome(loc["t1"].fetched)
        \/ Unwrap(loc["t1"].fetched) >= AccountBefore.last_update_balance
        \/ Shortfall >= AccountBefore.lots[1].amount)
    => /\ db = AdjustBefore
       /\ trace["t1"][Len(trace["t1"])] # "update_account"

\* C15: a shortfall as large as the first lot has been left alone
C15_ShortfallLeftAlone ==
    /\ FetchedLower /\ Shortfall >= AccountBefore.lots[1].amount
    /\ db = AdjustBefore

\* C16: the lot adjust_balance reduces is the account's chronologically
\* first lot, whatever the order in which the ledger returns the lots.
C16_OldestLotAbsorbs ==
    AdjustTracked =>
        \A i \in 1..Len(AccountBefore.lots) :
            AccountAfter.lots[i] # AccountBefore.lots[i]
                => \A j \in 1..Len(AccountBefore.lots) :
                       AccountBefore.lots[i].when <= AccountBefore.lots[j].when

\* C16: the lot that was reduced has a later date than another lot of the account
C16_NewerLotReduced ==
    /\ AdjustTracked
    /\ \E i, j \in 1..Len(AccountBefore.lots) :
          /\ AccountAfter.lots[i].amount < AccountBefore.lots[i].amount
          /\ AccountBefore.lots[j].when < AccountBefore.lots[i].when

\* C17: adjust_balance never changes the difference between the sum of the
\* lots and the recorded balance; after an adjustment on an account where the
\* two were equal they are equal again, and equal to the fetched balance.
C17_SumFollowsBalance ==
    AdjustTracked =>
        /\ SumAmounts(AccountAfter.lots) - AccountAfter.last_update_balance
              = SumAmounts(AccountBefore.lots) - AccountBefore.last_update_balance
        /\ (/\ db # AdjustBefore
            /\ SumAmounts(AccountBefore.lots) = AccountBefore.last_update_balance)
           => /\ SumAmounts(AccountAfter.lots) = AccountAfter.last_update_balance
              /\ AccountAfter.last_update_balance = Unwrap(loc["t1"].fetched)

\* C17: an adjustment was applied to an account whose lots summed to its balance
C17_AdjustedInSync ==
    /\ AdjustTracked
    /\ db # AdjustBefore
    /\ SumAmounts(AccountBefore.lots) = AccountBefore.last_update_balance

\* C18: over any sequence of adjust_balance calls every lot keeps an amount
\* above zero, no recorded balance goes below zero and no call panics.
C18_LotsStayPositive ==
    /\ ~crashed
    /\ \A k \in DOMAIN db.accounts :
          /\ db.accounts[k].last_update_balance >= 0
          /\ \A i \in 1..Len(db.accounts[k].lots) : db.accounts[k].lots[i].amount > 0

\* C18: after one absorption the first lot holds one unit, and a further
\* shortfall of one unit was not taken from it
C18_LastUnitKept ==
    /\ trace["t1"] = <<"adjust_balance", "update_account", "adjust_balance">>
    /\ FetchedLower
    /\ AccountBefore.lots[1].amount = 1
    /\ db = AdjustBefore

-----------------------------------------------------------------------------
(* Reconciliation after a paid fee *)

\* a transaction of task t's handler landed, so the authority paid its fee:
\* the stake transaction is on-chain, the token transfer succeeded, or the
\* swap went through
FeePaid(t) ==
    \/ loc[t].signature # 0 /\ loc[t].signature \in chain
    \/ Has(t, "token_transfer_ok")
    \/ Has(t, "process_sync_swaps") \/ Has(t, "process_sync_swaps_err")

\* C19: a handler in which a transaction landed has called adjust_balance
\* for the authority by the time it returns.
C19_LandedThenAdjusted ==
    \A t \in Tasks :
        (pc[t] = "done" /\ FeePaid(t)) => Has(t, "adjust_balance")

\* C19: a withdraw whose transaction landed returned on the failed date
\* lookup without calling adjust_balance
C19_LandedNotAdjusted ==
    \E t \in Tasks :
        /\ pc[t] = "done" /\ loc[t].op = "withdraw"
        /\ Has(t, "send_true") /\ loc[t].signature \in chain
        /\ Has(t, "get_signature_date_err")
        /\ ~Has(t, "adjust_balance")

-----------------------------------------------------------------------------
(* The price refresh and the locks *)

\* C20: the price refresh never blocks a ledger operation: while a refresh
\* round is in progress the UI thread stays free, so that an operation can be
\* started and take its locks, whatever url changes come in between.
C20_RefreshNeverBlocks ==
    (InRound /\ pc["t1"] = "idle" /\ ~crashed) => CanSpawn("t1")

\* C20: the url was changed during a refresh round: the thread waits in
\* RPC.write() for the read guard of the suspended refresh task, the only
\* guard held, and no operation can start
C20_UrlChangeBlocksThread ==
    /\ InRound
    /\ rpcLock = {"price"}
    /\ pc["url"] = "blocked" /\ cur = Some("url")
    /\ pc["t1"] = "idle"

-----------------------------------------------------------------------------
(* Reports *)

Rendered(view) == IsSome(ui.report) /\ Unwrap(ui.report).view = view

\* the term the rule gives a lot held from `from` to `to`
TermOf(from, to) == IF to - from < 365 THEN "S" ELSE "L"

\* the sum of the gains of the rows of the given term among the given lots
GainOfTerm(rows, p, term) ==
    Sum([i \in 1..Len(rows) |->
            IF rows[i].lot_number \in p /\ rows[i].term = term THEN rows[i].gain ELSE 0])

GainOf(x) ==
    (x.lot.amount * (x.price - x.lot.price) * DollarScale) \div UnitsPerToken(x.token)

\* the sum of f over the disposed lots whose number is in p
RECURSIVE TotalGain(_, _)
TotalGain(lots, p) ==
    IF lots = << >> THEN 0
    ELSE (IF Head(lots).lot.lot_number \in p THEN GainOf(Head(lots)) ELSE 0)
         + TotalGain(Tail(lots), p)

\* C22: in the disposed-lot summary the short-term and the long-term gain
\* add up to the total gain of the aggregated lots (all of them, and the
\* selected ones), every lot's gain being in exactly one of the two; the
\* lots of 100 at $10 and 50 at $20 disposed at $15 give $250
C22_GainsAddUp ==
    Rendered("disposed") =>
       LET summary == Unwrap(ui.report).summary IN
       /\ summary.total.short_gain + summary.total.long_gain = TotalGain(db.disposed, Nat)
       /\ IsSome(summary.selected) =>
             LET selected == Unwrap(summary.selected).total IN
             /\ selected.short_gain + selected.long_gain
                   = TotalGain(db.disposed, ui.disposed_selected)
             /\ \A i \in 1..Len(db.disposed) :
                   ui.disposed_selected = {db.disposed[i].lot.lot_number} =>
                      \/ selected.short_gain = GainOf(db.disposed[i]) /\ selected.long_gain = 0
                      \/ selected.short_gain = 0 /\ selected.long_gain = GainOf(db.disposed[i])
       /\ db.disposed = ExampleDisposed =>
             summary.total.short_gain + summary.total.long_gain = 250 * DollarScale

\* the summary of the example: $500 of short-term gain and $250 of
\* long-term loss, $250 in all
C22_ExampleGain ==
    /\ Rendered("disposed")
    /\ db.disposed = ExampleDisposed
    /\ Unwrap(ui.report).summary.total.short_gain = 500 * DollarScale
    /\ Unwrap(ui.report).summary.total.long_gain = (0 - 250) * DollarScale

\* the income of a disposed lot: quantity x acquisition price for a reward
\* lot, nothing for a lot of any other kind, in 1/DollarScale dollars
IncomeOf(x) ==
    IF x.lot.kind = "EpochReward"
    THEN (x.lot.amount * x.lot.price * DollarScale) \div UnitsPerToken(x.token)
    ELSE 0

RECURSIVE TotalIncome(_, _)
TotalIncome(lots, p) ==
    IF lots = << >> THEN 0
    ELSE (IF Head(lots).lot.lot_number \in p THEN IncomeOf(Head(lots)) ELSE 0)
         + TotalIncome(Tail(lots), p)

\* C23: the income of a disposed-lot row is quantity x acquisition price
\* when the lot was acquired as an epoch reward and zero otherwise, and the
\* income of the summary (of all lots, and of the selected ones) is the sum
\* of it over the aggregated lots
C23_IncomeIsRewards ==
    Rendered("disposed") =>
       LET report == Unwrap(ui.report) IN
       /\ \A i \in 1..Len(db.disposed) : report.rows[i].income = IncomeOf(db.disposed[i])
       /\ report.summary.total.income = TotalIncome(db.disposed, Nat)
       /\ IsSome(report.summary.selected) =>
             Unwrap(report.summary.selected).total.income
                = TotalIncome(db.disposed, ui.disposed_selected)

\* a reward lot and a lot of another kind are disposed of: the income is
\* that of the reward lot alone
C23_RewardAndOther ==
    /\ Rendered("disposed")
    /\ \E i, j \in 1..Len(db.disposed) :
          /\ db.disposed[i].lot.kind = "EpochReward"
          /\ db.disposed[j].lot.kind # "EpochReward"
          /\ Unwrap(ui.report).rows[i].income > 0
          /\ Unwrap(ui.report).rows[j].income = 0
          /\ Unwrap(ui.report).summary.total.income = Unwrap(ui.report).rows[i].income

\* the amounts, and the disposal values in 1/DollarScale dollars, of the
\* disposed lots whose number is in p and whose token is in tokens
RECURSIVE TotalAmount(_, _, _)
TotalAmount(lots, p, tokens) ==
    IF lots = << >> THEN 0
    ELSE (IF Head(lots).lot.lot_number \in p /\ Head(lots).token \in tokens
          THEN Head(lots).lot.amount ELSE 0)
         + TotalAmount(Tail(lots), p, tokens)

RECURSIVE TotalValue(_, _)
TotalValue(lots, p) ==
    IF lots = << >> THEN 0
    ELSE (IF Head(lots).lot.lot_number \in p
          THEN (Head(lots).lot.amount * Head(lots).price * DollarScale)
                  \div UnitsPerToken(Head(lots).token)
          ELSE 0)
         + TotalValue(Tail(lots), p)

\* C24: the amount of the disposed-lot summary is the sum of the amounts of
\* the aggregated lots held in SOL, lots of other tokens adding nothing to
\* it, and its value is the sum of quantity x disposal price over all the
\* aggregated lots, for all lots and for the selected lots
C24_AmountOfSolLots ==
    Rendered("disposed") =>
       LET summary == Unwrap(ui.report).summary IN
       /\ summary.total.amount = TotalAmount(db.disposed, Nat, {SOL})
       /\ summary.total.value = TotalValue(db.disposed, Nat)
       /\ IsSome(summary.selected) =>
             /\ Unwrap(summary.selected).total.amount
                   = TotalAmount(db.disposed, ui.disposed_selected, {SOL})
             /\ Unwrap(summary.selected).total.value
                   = TotalValue(db.disposed, ui.disposed_selected)

\* C24 as stated: the amount of the summary is the sum of the amounts of all
\* the aggregated lots, of whatever token, and the value the sum of their
\* disposal values
C24_AmountOfAllLots ==
    Rendered("disposed") =>
       LET summary == Unwrap(ui.report).summary IN
       /\ summary.total.amount = TotalAmount(db.disposed, Nat, {SOL, USDC})
       /\ summary.total.value = TotalValue(db.disposed, Nat)
       /\ IsSome(summary.selected) =>
             /\ Unwrap(summary.selected).total.amount
                   = TotalAmount(db.disposed, ui.disposed_selected, {SOL, USDC})
             /\ Unwrap(summary.selected).total.value
                   = TotalValue(db.disposed, ui.disposed_selected)

\* a SOL lot and a USDC lot are disposed of: the amount is the SOL lot's,
\* the value that of both
C24_MixedTokens ==
    /\ Rendered("disposed")
    /\ Len(db.disposed) = 2
    /\ db.disposed[1].token = SOL /\ db.disposed[2].token = USDC
    /\ Unwrap(ui.report).summary.total.amount = db.disposed[1].lot.amount
    /\ Unwrap(ui.report).summary.total.value
          = TotalValue(db.disposed, {1}) + TotalValue(db.disposed, {2})
    /\ TotalValue(db.disposed, {2}) > 0

\* the tax of the rule on the gains short and long, at the rates of the
\* ledger's configuration or 0.3935 (short) and 0.22 (long) without one
TaxOf(short, long) ==
    LET short_rate == IF IsSome(db.tax_rate) THEN Unwrap(db.tax_rate).short_term_gain ELSE 3935
        long_rate == IF IsSome(db.tax_rate) THEN Unwrap(db.tax_rate).long_term_gain ELSE 2200
    IN CASE short > 0 /\ long > 0 -> short * short_rate + long * long_rate
         [] short <= 0 /\ long > 0 -> (short + long) * long_rate
         [] OTHER -> (short + long) * short_rate

\* C25: the holdings summary shows a tax exactly when lots are selected and
\* their total gain is above zero; the tax is then that of the rule on the
\* short-term and long-term gain of the summary, and it is not negative
C25_TaxRule ==
    Rendered("main") =>
       LET summary == Unwrap(ui.report).summary IN
       /\ IsSome(summary.tax) <=>
             /\ IsSome(summary.lots)
             /\ Unwrap(summary.lots).short_gain + Unwrap(summary.lots).long_gain > 0
       /\ IsSome(summary.tax) =>
             /\ Unwrap(summary.tax) = TaxOf(Unwrap(summary.lots).short_gain,
                                            Unwrap(summary.lots).long_gain)
             /\ Unwrap(summary.tax) >= 0
       /\ IsSome(summary.lots) <=> (ui.selected # {} /\ IsSome(ui.account))

\* a short-term loss and a larger long-term gain are selected and no rate
\* is configured: the tax is the net gain at 0.22
C25_NetGainAtLongRate ==
    /\ Rendered("main")
    /\ db.tax_rate = None
    /\ IsSome(Unwrap(ui.report).summary.lots)
    /\ Unwrap(Unwrap(ui.report).summary.lots).short_gain < 0
    /\ Unwrap(Unwrap(ui.report).summary.lots).long_gain > 0
    /\ Unwrap(ui.report).summary.tax
          = Some(Unwrap(Unwrap(ui.report).summary.lots).gain * 2200)

-----------------------------------------------------------------------------
(* The price map *)

\* C26: the price refresh goes on for ever: a round that has begun is never
\* left waiting on a thread that can no longer run it, so that it stores an
\* entry for every token and releases the RPC read lock before it sleeps
C26_RoundsComplete ==
    /\ InRound => ~(IsSome(cur) /\ pc[Unwrap(cur)] = "blocked")
    /\ ~InRound => "price" \notin rpcLock
    /\ PriceTokens[Len(PriceTokens)] \in DOMAIN ui.prices =>
          \A i \in 1..Len(PriceTokens) : PriceTokens[i] \in DOMAIN ui.prices

\* C26: the first round has stored the price of SOL and waits for that of
\* the next token, holding the RPC read lock, when a url change blocks the
\* thread in RPC.write(): the round never ends and the map keeps lacking an
\* entry
C26_FirstRoundStuck ==
    /\ pc["price"] = PriceTokens[2]
    /\ PriceTokens[1] \in DOMAIN ui.prices
    /\ PriceTokens[2] \notin DOMAIN ui.prices
    /\ "price" \in rpcLock
    /\ cur = Some("url") /\ pc["url"] = "blocked"

\* the parts of C26 that hold: the lock is not held between rounds, a round
\* that has ended leaves an entry for every token, and a failed lookup is
\* stored as 0
PriceMapKept ==
    /\ ~InRound => "price" \notin rpcLock
    /\ PriceTokens[Len(PriceTokens)] \in DOMAIN ui.prices =>
          \A i \in 1..Len(PriceTokens) : PriceTokens[i] \in DOMAIN ui.prices
    /\ \A t \in DOMAIN ui.prices : ui.prices[t] \in {0} \cup CurrentPrices

-----------------------------------------------------------------------------
(* Deadlock freedom *)

\* C27: no handler waits forever for the ledger lock or the RPC lock: a
\* handler that calls DB.write() while another is suspended at a network
\* await with the write guard still gets the lock, so no task is ever left
\* in the lock call on a thread that cannot run the holder
C27_NoTaskWaitsForever ==
    \A t \in Tasks : pc[t] # "blocked"

\* C27: a split is suspended in process_account_split with the ledger write
\* guard; a second handler was started meanwhile and sits in DB.write() on
\* the UI thread, which therefore never resumes the split
C27_SecondHandlerWaitsForever ==
    \E t \in Tasks, u \in Tasks :
        /\ t # u
        /\ loc[t].op = "split" /\ pc[t] = "split_await"
        /\ dbLock = Some(t)
        /\ pc[u] = "blocked" /\ cur = Some(u)
        /\ ~ENABLED do_split_done(t)

-----------------------------------------------------------------------------
(* The lot list adjust_balance indexes *)

-----------------------------------------------------------------------------
(* Cross-process exclusion *)

\* C29: from the moment an instance has opened the database until it exits,
\* no other instance acquires the write lock on the database file or has
\* the same database open
C29_ExclusiveUntilExit ==
    \A i \in Instances, j \in Instances :
        (i # j /\ pc[i] = "running") => pc[j] \notin {"opening", "running"}

\* C29: this process runs, its price refresh in a round, and the second
\* process, started meanwhile, has taken the file lock at its first attempt
\* and has the same database open
C29_BothInstancesOpen ==
    /\ pc["app"] = "running" /\ InRound
    /\ pc["other"] = "running"

\* while an instance is in the initializer, between try_write and the
\* return of db::new, the other one does not get the file lock and retries
RetryWhileOpening ==
    \A i \in Instances, j \in Instances :
        (i # j /\ pc[i] = "opening") => pc[j] \in {"start", "retry", "running", "exited"}

-----------------------------------------------------------------------------
(* Input guards *)

SelectMessages ==
    {"Select account and lots to split", "Select account and lots to swap",
     "Select account and lots to withdraw", "Select account to deactivate",
     "Select account to delegate", "Select account to merge"}

EnterMessages ==
    {"Enter account address to be merged into",
     "Enter account address to deposit the withdrawn funds to",
     "Enter signer keypair for swap",
     "Enter staking authority keypair for account to be deactivated",
     "Enter staking authority keypair for account to be merged",
     "Enter staking authority keypair for account to be split",
     "Enter staking authority keypair for account to delegate",
     "Enter validator address to delegate to",
     "Enter withdraw authority keypair for account to withdraw from"}

InvalidMessages ==
    {"Invalid address to deposit to", "Invalid address to merge into",
     "Invalid validator address", "Invalid signer"}

NetworkEvents ==
    {"process_token_transfer", "token_transfer_ok", "token_transfer_err",
     "process_account_split", "process_account_split_err",
     "process_jup_swap", "process_jup_swap_err", "process_sync_swaps_err",
     "process_account_merge", "process_account_merge_err",
     "get_signature_date", "get_signature_date_err"}
    \cup BlockhashEvents \cup SimulateEvents \cup SendEvents

\* the only handler that ran has returned with one of `messages` in the log:
\* it made no network call and no ledger call, the ledger is the one that
\* was opened and the account selection is still there
ReturnedAtGuard(messages) ==
    \A t \in Tasks :
        (OnlyTask(t) /\ pc[t] = "done" /\ IsSome(ui.log) /\ Unwrap(ui.log) \in messages)
        => /\ Count(t, NetworkEvents) = 0
           /\ Count(t, LedgerEvents) = 0
           /\ db = OpenedDb
           /\ Unwrap(ui.log) \notin SelectMessages => IsSome(ui.account)

\* C30: a handler that finds a required input missing, or the recipient
\* address or the signer unparsable, sets its message and returns without a
\* network call and without a ledger change, the selection kept
C30_GuardsReturnBeforeAnyCall ==
    ReturnedAtGuard(SelectMessages \cup EnterMessages \cup InvalidMessages)

\* C30: a withdraw of a non-native token has transferred the tokens and
\* then returned with "Invalid signer": make_signer is reached only after
\* the transfer
C30_TransferBeforeSigner ==
    \E t \in Tasks :
        /\ OnlyTask(t) /\ pc[t] = "done"
        /\ loc[t].op = "withdraw" /\ Unwrap(loc[t].account).token # SOL
        /\ ui.log = Some("Invalid signer")
        /\ Has(t, "process_token_transfer") /\ Has(t, "token_transfer_ok")
        /\ db = OpenedDb

\* the guards on missing inputs and on the recipient address do return
\* before any call
MissingInputReturnsAtOnce ==
    ReturnedAtGuard(SelectMessages \cup EnterMessages \cup (InvalidMessages \ {"Invalid signer"}))

-----------------------------------------------------------------------------
(* Selection *)

\* the handlers that pass an explicit lot-number set to their engine
LotOps == {"split", "withdraw", "swap"}

PassedGuard(t) == loc[t].op \in LotOps /\ IsSome(loc[t].lot_numbers)

\* C31: while an account is selected every selected lot number is one of
\* the selected account's lots, and a split, withdraw or swap that passed
\* its guards hands its engine a lot-number set that is not empty and whose
\* lots amount to more than zero
C31_SelectionWithinAccount ==
    /\ IsSome(ui.account) => ui.selected \subseteq LotNumbers(Unwrap(ui.account).lots)
    /\ \A t \in Tasks :
          PassedGuard(t) =>
             /\ Unwrap(loc[t].lot_numbers) # {}
             /\ SelectedAmount(Unwrap(loc[t].account), Unwrap(loc[t].lot_numbers)) > 0

\* C31: a split passed its guards with no lot number to hand over: the
\* selection names lots that the account, clicked again after an earlier
\* operation took them, no longer has
C31_EmptyLotSetPassedGuard ==
    \E t \in Tasks :
       /\ PassedGuard(t)
       /\ loc[t].op = "split"
       /\ Unwrap(loc[t].lot_numbers) = {}
       /\ loc[t].amount = 0
       /\ ui.selected # {}

\* the lot numbers the account of task t's handler had in the ledger when
\* the handler took its locks
LedgerLotNumbers(t) ==
    LET account == Unwrap(loc[t].account)
        k == Key(account.address, account.token)
        d == Unwrap(loc[t].ledger0)
    IN IF k \in DOMAIN d.accounts THEN LotNumbers(d.accounts[k].lots) ELSE {}

\* task t's split, withdraw or swap went through and the handler returned
HandlerSucceeded(t) ==
    pc[t] = "done" /\ loc[t].op \in LotOps /\ Has(t, "adjust_balance")

\* the operation under task t's handler returned an error
OperationFailed(t) ==
    /\ pc[t] = "done"
    /\ \/ Count(t, {"process_account_split_err", "process_jup_swap_err",
                    "process_account_merge_err"}) > 0
       \/ /\ loc[t].op = "withdraw" /\ loc[t].result = "Err"
          /\ Unwrap(loc[t].account).token = SOL

\* the operation under task t's handler returned Ok: it took the lots
OperationSucceeded(t) ==
    /\ loc[t].op \in LotOps
    /\ Has(t, "adjust_balance") \/ Has(t, "process_sync_swaps_err")

\* C32: a split, withdraw or swap that succeeded has left no account and no
\* lot selected; a split, SOL withdraw, swap or merge whose operation failed
\* has left the account and the lots selected as they were; and no handler
\* passes its guards on a selection naming lots that an operation which
\* succeeded before it has taken from the ledger
C32_SelectionAfterOperation ==
    \A t \in Tasks :
       /\ (HandlerSucceeded(t) /\ OnlyTask(t)) => (ui.account = None /\ ui.selected = {})
       /\ (OperationFailed(t) /\ OnlyTask(t)) =>
             /\ ui.account = loc[t].account
             /\ IsSome(loc[t].lot_numbers) => ui.selected = Unwrap(loc[t].lot_numbers)
       /\ \A u \in Tasks \ {t} :
             (PassedGuard(t) /\ OperationSucceeded(u)) =>
                 (Unwrap(loc[t].lot_numbers) \cap Unwrap(loc[u].lot_numbers))
                     \subseteq LedgerLotNumbers(t)

\* C32: a swap went through and its process_sync_swaps failed, the selection
\* stayed, and a second handler passed its guards on the swapped lots
C32_SwappedLotsSelectedAgain ==
    \E t \in Tasks, u \in Tasks :
       /\ t # u
       /\ loc[u].op = "swap" /\ Has(u, "process_sync_swaps_err")
       /\ PassedGuard(t)
       /\ Unwrap(loc[t].lot_numbers) # {}
       /\ Unwrap(loc[t].lot_numbers) \subseteq Unwrap(loc[u].lot_numbers)
       /\ Unwrap(loc[t].lot_numbers) \cap LedgerLotNumbers(t) = {}

\* the parts of C32 about what the handler does to the selection hold
SelectionResetOrKept ==
    \A t \in Tasks :
       /\ (HandlerSucceeded(t) /\ OnlyTask(t)) => (ui.account = None /\ ui.selected = {})
       /\ (OperationFailed(t) /\ OnlyTask(t)) =>
             /\ ui.account = loc[t].account
             /\ IsSome(loc[t].lot_numbers) => ui.selected = Unwrap(loc[t].lot_numbers)

-----------------------------------------------------------------------------
(* The amount field *)

\* C33: the amount of the UI state is the number the text in the amount
\* field reads as, and is absent when that text is not a number
C33_AmountIsValueOfText ==
    ui.amount = parse_f64(ui.amount_text)

\* C33: the field reads "1." and the state still holds 1.5, the amount
\* typed before the last digit was deleted
C33_StaleAmount ==
    /\ ui.amount_text = <<"1", ".">>
    /\ ui.amount = parse_f64(<<"1", ".", "5">>)
    /\ parse_f64(ui.amount_text) = parse_f64(<<"1">>)
    /\ parse_f64(<<"1">>) # parse_f64(<<"1", ".", "5">>)

\* what the handler does keep: the amount is the value of the text shown
\* whenever that text neither ends with a point nor, having a point, with 0
AmountOfUnfilteredText ==
    LET value == ui.amount_text IN
    (~ends_with(value, ".") /\ ~(contains(value, ".") /\ ends_with(value, "0")))
        => ui.amount = parse_f64(value)

-----------------------------------------------------------------------------
(* Withdraw from the UI and the tracked accounts *)

\* the ledger key of the account task t's handler works on
AccountKey(t) == Key(Unwrap(loc[t].account).address, Unwrap(loc[t].account).token)

\* task t's handler has called process_stake_withdraw
EngineCalled(t) == Count(t, {"get_latest_blockhash", "get_latest_blockhash_err"}) > 0

\* C34: do_withdraw calls process_stake_withdraw with Some(amount), never in
\* the withdraw-all mode, so the engine never removes the account: the
\* account of a withdraw stays tracked, and after a withdraw to another
\* account that took every lot it had it is tracked with no lot
C34_WithdrawKeepsAccount ==
    \A t \in Tasks :
       loc[t].op = "withdraw" =>
          /\ EngineCalled(t) => (IsSome(loc[t].arg_amount) /\ ~loc[t].withdraw_all)
          /\ Count(t, {"remove_account", "remove_account_err", "assert_failed"}) = 0
          /\ OnlyTask(t) => AccountKey(t) \in DOMAIN db.accounts
          /\ (/\ OnlyTask(t) /\ HandlerSucceeded(t)
              /\ loc[t].to_address # loc[t].stake_address
              /\ Unwrap(loc[t].lot_numbers)
                    = LotNumbers(Unwrap(loc[t].ledger0).accounts[AccountKey(t)].lots)
              /\ loc[t].amount = SumAmounts(Unwrap(loc[t].ledger0).accounts[AccountKey(t)].lots))
             => db.accounts[AccountKey(t)].lots = << >>

\* C34: a withdraw of the stake account went through the engine, took every
\* lot, and the account is in the ledger with an empty lot list
C34_EmptiedAccountTracked ==
    \E t \in Tasks :
       /\ loc[t].op = "withdraw" /\ HandlerSucceeded(t) /\ OnlyTask(t)
       /\ EngineCalled(t) /\ Has(t, "confirm_transfer")
       /\ AccountKey(t) = Key(StakeAddr, SOL)
       /\ loc[t].to_address # loc[t].stake_address
       /\ Unwrap(loc[t].ledger0).accounts[AccountKey(t)].lots # << >>
       /\ AccountKey(t) \in DOMAIN db.accounts
       /\ db.accounts[AccountKey(t)].lots = << >>

-----------------------------------------------------------------------------
(* process_stake_withdraw and untracked accounts *)

\* the address has a SOL account in the ledger the engine was called on
TrackedSol(t, address) == IsSome(get_account(Unwrap(loc[t].ledger0), address, SOL))

\* process_stake_withdraw has returned to its caller, now or earlier
EngineOver(t) ==
    /\ InWithdrawEngine(t)
    /\ EngineCalled(t)
    /\ pc[t] \in {"withdraw_result", "engine_result", "done"}

\* C35: called with a source or a destination address that has no SOL
\* account in the ledger, process_stake_withdraw returns an error, has not
\* simulated, signed, recorded or submitted anything, and the ledger is as
\* it was
C35_UntrackedAccountRejected ==
    \A t \in Tasks :
       (/\ InWithdrawEngine(t) /\ EngineCalled(t)
        /\ ~TrackedSol(t, loc[t].stake_address) \/ ~TrackedSol(t, loc[t].to_address))
       => /\ Count(t, SimulateEvents \cup {"sign", "sign_err"} \cup SendEvents
                      \cup (LedgerEvents \ {"adjust_balance"})) = 0
          /\ OnlyTask(t) => db = Unwrap(loc[t].ledger0)
          /\ EngineOver(t) => loc[t].result = "Err"

\* C35: the engine was called for a tracked stake account and a destination
\* that is tracked for another token only, fetched a blockhash and returned
\* the error
C35_DestinationNotSol ==
    \E t \in Tasks :
       /\ EngineOver(t) /\ loc[t].result = "Err"
       /\ TrackedSol(t, loc[t].stake_address)
       /\ loc[t].to_address = TokenAddr
       /\ trace[t] = <<"get_latest_blockhash">>

-----------------------------------------------------------------------------
(* The frame of adjust_balance *)

\* a lot without its amount: number and acquisition data
LotIdentity(lot) == [f \in DOMAIN lot \ {"amount"} |-> lot[f]]

\* C36: adjust_balance changes nothing but the first lot's amount and the
\* recorded balance of the SOL account with the given address: every other
\* account, the set of accounts, the transfers, the disposed lots, and in
\* the account the number of lots, every lot's number and acquisition data
\* and the amount of every lot but the first are as before the call
C36_OnlyFirstLotAndBalance ==
    AdjustCalled =>
       /\ DOMAIN db.accounts = DOMAIN AdjustBefore.accounts
       /\ \A k \in DOMAIN db.accounts :
             (k # AdjustKey \/ k[2] # SOL) => db.accounts[k] = AdjustBefore.accounts[k]
       /\ db.transfers = AdjustBefore.transfers
       /\ db.disposed = AdjustBefore.disposed
       /\ db.next_lot = AdjustBefore.next_lot
       /\ AdjustTracked =>
             /\ Len(AccountAfter.lots) = Len(AccountBefore.lots)
             /\ \A i \in 1..Len(AccountBefore.lots) :
                   /\ LotIdentity(AccountAfter.lots[i]) = LotIdentity(AccountBefore.lots[i])
                   /\ i > 1 => AccountAfter.lots[i].amount = AccountBefore.lots[i].amount

\* C36: a call changed an account of several lots
C36_AdjustedAmongSeveralLots ==
    /\ AdjustTracked
    /\ Len(AccountBefore.lots) > 1
    /\ AccountAfter.lots[1].amount < AccountBefore.lots[1].amount
    /\ AccountAfter.last_update_balance < AccountBefore.last_update_balance

-----------------------------------------------------------------------------
(* Delegate and deactivate leave the lots alone *)

StakeStateOps == {"deactivate", "delegate"}

\* the authority's SOL account has absorbed a fee: the first lot and the
\* recorded balance are lower by the same amount, nothing else differs
FeeAbsorbed(before, after) ==
    /\ after.last_update_balance < before.last_update_balance
    /\ after.lots = [before.lots EXCEPT ![1].amount =
                        @ - (before.last_update_balance - after.last_update_balance)]

\* C37: a deactivate or delegate makes no ledger call but adjust_balance:
\* it creates no transfer and no disposed lot, and the ledger it leaves
\* differs from the one it found at most by a fee absorbed in the
\* authority's account
C37_StakeStateOpsKeepLots ==
    \A t \in Tasks :
       loc[t].op \in StakeStateOps =>
          /\ Count(t, LedgerEvents \ {"adjust_balance"}) = 0
          /\ OnlyTask(t) =>
                LET before == Unwrap(loc[t].ledger0)
                    k == Key(loc[t].authority_address, SOL)
                IN /\ db.transfers = before.transfers
                   /\ db.disposed = before.disposed
                   /\ DOMAIN db.accounts = DOMAIN before.accounts
                   /\ \A x \in DOMAIN db.accounts :
                         \/ db.accounts[x] = before.accounts[x]
                         \/ x = k /\ Has(t, "adjust_balance")
                                  /\ FeeAbsorbed(before.accounts[x], db.accounts[x])

\* C37: a deactivate of the stake account landed and returned, the
\* authority's account absorbed the fee, and the stake account's lots are
\* the ones it had
C37_DeactivatedFeeAbsorbed ==
    \E t \in Tasks :
       /\ loc[t].op = "deactivate" /\ pc[t] = "done" /\ OnlyTask(t)
       /\ Has(t, "send_true") /\ Has(t, "adjust_balance")
       /\ Unwrap(loc[t].account).address = StakeAddr
       /\ db.accounts[Key(StakeAddr, SOL)] = Unwrap(loc[t].ledger0).accounts[Key(StakeAddr, SOL)]
       /\ db # Unwrap(loc[t].ledger0)
       /\ db.transfers = << >> /\ db.disposed = << >>

-----------------------------------------------------------------------------
(* Clicks on the lot rows *)

\* the row of lot n in the table as the click found it
RowOf(c, n) == CHOOSE i \in 1..Len(c.rows) : c.rows[i] = n

\* the lots of the rows from lot a to lot b, both included
Run(c, a, b) ==
    {c.rows[i] : i \in Min(RowOf(c, a), RowOf(c, b))..
                       (IF RowOf(c, a) > RowOf(c, b) THEN RowOf(c, a) ELSE RowOf(c, b))}

\* C38: after a plain click the selection is the clicked lot alone; a
\* meta-click changes the membership of the clicked lot and of no other; a
\* shift-click removes no lot and adds the run of rows, as displayed, from
\* the clicked lot to a lot that was selected, which is the clicked lot
\* alone when no other lot was selected
C38_LotClick ==
    IsSome(ui.click) =>
       LET c == Unwrap(ui.click)
           others == c.selected \ {c.lot}
       IN /\ c.modifiers = "none" => ui.selected = {c.lot}
          /\ c.modifiers = "meta" =>
                ui.selected = (c.selected \ {c.lot}) \cup ({c.lot} \ c.selected)
          /\ c.modifiers = "shift" =>
                /\ c.selected \subseteq ui.selected
                /\ IF others = {}
                   THEN ui.selected = c.selected \cup {c.lot}
                   ELSE \E a \in others : ui.selected = c.selected \cup Run(c, c.lot, a)

\* C38: a shift-click on the last of three rows with no lot selected has
\* selected all three
C38_ShiftClickSelectsFromFirstRow ==
    /\ IsSome(ui.click)
    /\ Unwrap(ui.click).modifiers = "shift"
    /\ Unwrap(ui.click).selected = {}
    /\ Len(Unwrap(ui.click).rows) = 3
    /\ Unwrap(ui.click).lot = Unwrap(ui.click).rows[3]
    /\ ui.selected = {Unwrap(ui.click).rows[i] : i \in 1..3}

\* what the handler does keep: plain and meta clicks as stated, and a
\* shift-click adds the run from the clicked row to the last other selected
\* row, or to the first row of the table when no other lot is selected
LotClickRunsFromFirstRow ==
    IsSome(ui.click) =>
       LET c == Unwrap(ui.click)
           others == c.selected \ {c.lot}
       IN /\ c.modifiers = "none" => ui.selected = {c.lot}
          /\ c.modifiers = "meta" =>
                ui.selected = (c.selected \ {c.lot}) \cup ({c.lot} \ c.selected)
          /\ c.modifiers = "shift" =>
                /\ c.selected \subseteq ui.selected
                /\ IF others = {}
                   THEN ui.selected = c.selected \cup Run(c, c.lot, c.rows[1])
                   ELSE \E a \in others :
                           /\ \A b \in others : RowOf(c, b) <= RowOf(c, a)
                           /\ ui.selected = c.selected \cup Run(c, c.lot, a)

====
